---- MODULE Spec2Model ----
(***************************************************************************)
(* Verification model of the asset-factory Figma plugin core:              *)
(*   TextAnalyzer  (src/src/core/text-analyzer.ts)                         *)
(*   LayerManager  (src/src/core/layer-manager.ts)                         *)
(*   ThemeEngine   (src/src/core/theme-engine.ts)                          *)
(*   AuditEngine   (src/src/core/audit-engine.ts)                          *)
(*   FeedbackSystem (src/src/core/audit-engine.ts)                         *)
(*                                                                         *)
(* A JavaScript string is modelled as a sequence of characters, each       *)
(* character a one-character TLA+ string, so that trim, toLowerCase,        *)
(* includes and the regular expressions are computed, not assumed.         *)
(* A confidence is a rational with at most four decimals; it is stored in  *)
(* ten-thousandths (1.0 = 10000, 0.64 = 6400).                             *)
(***************************************************************************)
EXTENDS Integers, Sequences, FiniteSets, TLC

VARIABLES
    inputs,      \* TextAnalyzer: the batch handed to analyze
    results,     \* TextAnalyzer: the array analyze returned
    analyzed,    \* TextAnalyzer: TRUE once analyze has returned
    detected,    \* TextAnalyzer: the object detectType returned last
    tree,        \* the document: the sequence of its nodes, tree[1] the root frame
    width,       \* frame.width of the root frame
    height,      \* frame.height of the root frame
    before,      \* the document as it was handed to the last operation
    op,          \* the last operation applied to the document
    opCount,     \* the number of operations applied to the document
    themeName,   \* the themeName argument of the last ThemeEngine.apply
    brandConfig, \* the brandConfig field of ThemeEngine and AuditEngine
    auditResult, \* the AuditResult of the last AuditEngine.audit
    validationResult, \* the ValidationResult of the last LayerManager.validate
    resolved,    \* ThemeEngine: the key and the color of the last getColor
    feedbackLog, \* FeedbackSystem: the feedbackLog field
    storage,     \* FeedbackSystem: the plugin data stored under storageKey
    now,         \* the clock new Date() reads, in days
    called,      \* FeedbackSystem: the method called last
    summary,     \* FeedbackSystem: the FeedbackSummary getSummary returned last
    config,      \* BrandConfigLoader: the config handed to validate
    configValidation, \* BrandConfigLoader: the ValidationResult validate returned
    message,     \* plugin: the message figma.ui.onmessage received last
    received,    \* plugin: the number of messages received
    posted,      \* plugin: the messages posted to the UI with figma.ui.postMessage
    page,        \* plugin: the number of frames appended to figma.currentPage
    fontsLoaded, \* AssetEngine: the fontsLoaded field
    savedConfig, \* plugin: the plugin data stored under the key brandConfig
    pending,     \* plugin: the handler that is suspended at an await
    trace,       \* plugin: the calls the handler of the last message has made
    textBlocks,  \* UI: the textBlocks state of the App component
    selectedAssetTypes, \* UI: the selectedAssetTypes state
    loading,     \* UI: the loading state
    sent,        \* UI: the messages posted to the plugin with parent.postMessage
    delivered    \* UI: the number of messages of the plugin that onmessage handled

textVars == <<inputs, results, analyzed, detected>>

treeVars ==
    <<tree, width, height, before, op, opCount, themeName, brandConfig,
      auditResult>>

feedbackVars == <<feedbackLog, storage, now, called, summary>>

\* the values returned last by the read-only operations
returnVars == <<validationResult, resolved>>

loaderVars == <<config, configValidation>>

handlerVars == <<savedConfig, pending, trace>>

uiVars == <<textBlocks, selectedAssetTypes, loading, sent, delivered>>

pluginVars == <<message, received, posted, page, fontsLoaded, handlerVars, uiVars>>

vars == <<textVars, treeVars, feedbackVars, returnVars, loaderVars, pluginVars>>

\* what an operation of one component leaves alone: the other components
besidesText == <<treeVars, feedbackVars, returnVars, loaderVars, pluginVars>>

besidesTree == <<textVars, feedbackVars, returnVars, loaderVars, pluginVars>>

besidesFeedback == <<textVars, treeVars, returnVars, loaderVars, pluginVars>>

besidesLoader == <<textVars, treeVars, feedbackVars, returnVars, pluginVars>>

\* what a read-only operation on the document leaves alone besides it
besidesDocument == <<textVars, feedbackVars, loaderVars, pluginVars>>

(***************************************************************************)
(* Bounds of the model                                                     *)
(***************************************************************************)
MaxBatch == 3

MaxWords == 4

MaxChildren == 4

MaxSubtrees == 3

MaxApplications == 2

MaxLog == 2

\* the number of messages the plugin receives
MaxMessages == 2

MaxBlocks == 3

MaxClock == 3

(***************************************************************************)
(* JavaScript string primitives                                            *)
(***************************************************************************)
LowerMap ==
    "A" :> "a" @@ "B" :> "b" @@ "C" :> "c" @@ "D" :> "d" @@ "E" :> "e" @@
    "F" :> "f" @@ "G" :> "g" @@ "H" :> "h" @@ "I" :> "i" @@ "J" :> "j" @@
    "K" :> "k" @@ "L" :> "l" @@ "M" :> "m" @@ "N" :> "n" @@ "O" :> "o" @@
    "P" :> "p" @@ "Q" :> "q" @@ "R" :> "r" @@ "S" :> "s" @@ "T" :> "t" @@
    "U" :> "u" @@ "V" :> "v" @@ "W" :> "w" @@ "X" :> "x" @@ "Y" :> "y" @@
    "Z" :> "z"

UpperLetters == DOMAIN LowerMap

LowerLetters == {LowerMap[c] : c \in UpperLetters}

Digits == {"0", "1", "2", "3", "4", "5", "6", "7", "8", "9"}

\* \s of the regular expressions, restricted to the blanks the inputs use
WhiteSpace == {" "}

\* \w of the regular expressions
WordChars == UpperLetters \cup LowerLetters \cup Digits \cup {"_"}

LowerChar(c) == IF c \in UpperLetters THEN LowerMap[c] ELSE c

UpperChar(c) ==
    IF c \in LowerLetters THEN CHOOSE u \in UpperLetters : LowerMap[u] = c ELSE c

toLowerCase(s) == [i \in 1..Len(s) |-> LowerChar(s[i])]

toUpperCase(s) == [i \in 1..Len(s) |-> UpperChar(s[i])]

includes(s, sub) ==
    \E i \in 0..(Len(s) - Len(sub)) : \A j \in 1..Len(sub) : s[i + j] = sub[j]

trim(s) ==
    LET solid == {i \in 1..Len(s) : s[i] \notin WhiteSpace}
    IN  IF solid = {} THEN <<>>
        ELSE LET lo == CHOOSE i \in solid : \A k \in solid : i <= k
                 hi == CHOOSE i \in solid : \A k \in solid : i >= k
             IN  SubSeq(s, lo, hi)

(***************************************************************************)
(* text-analyzer.ts                                                        *)
(***************************************************************************)
Roles == {"headline", "subhead", "body", "cta", "tag"}

\* an input without a type: the optional field is absent
NoType == "none"

CTA_WORDS == <<
    <<"l","e","a","r","n">>,
    <<"g","e","t">>,
    <<"j","o","i","n">>,
    <<"s","t","a","r","t">>,
    <<"t","r","y">>,
    <<"d","i","s","c","o","v","e","r">>,
    <<"e","x","p","l","o","r","e">>,
    <<"s","i","g","n"," ","u","p">>,
    <<"s","u","b","s","c","r","i","b","e">>,
    <<"d","o","w","n","l","o","a","d">>,
    <<"b","u","y">>,
    <<"s","h","o","p">>,
    <<"o","r","d","e","r">>,
    <<"c","o","n","t","a","c","t">>,
    <<"c","a","l","l">>,
    <<"b","o","o","k">>,
    <<"r","e","g","i","s","t","e","r">>,
    <<"a","p","p","l","y">>,
    <<"c","l","a","i","m">>,
    <<"r","e","a","d">>,
    <<"w","a","t","c","h">>,
    <<"l","i","s","t","e","n">>,
    <<"v","i","e","w">>,
    <<"s","e","e">>,
    <<"c","h","e","c","k">>,
    <<"c","l","i","c","k">>,
    <<"t","a","p">>,
    <<"s","w","i","p","e">>,
    <<"s","c","r","o","l","l">> >>

\* the arrow glyphs U+2192, U+279C, U+27A1, U+25BA, U+25B6 as characters
ArrowGlyphs == {"u2192", "u279C", "u27A1", "u25BA", "u25B6"}

\* /^(new|hot|sale|trending|featured|exclusive|limited)$/i
TagWordsStatus ==
    { <<"n","e","w">>, <<"h","o","t">>, <<"s","a","l","e">>,
      <<"t","r","e","n","d","i","n","g">>, <<"f","e","a","t","u","r","e","d">>,
      <<"e","x","c","l","u","s","i","v","e">>, <<"l","i","m","i","t","e","d">> }

\* /^(update|news|blog|post|article)$/i
TagWordsContent ==
    { <<"u","p","d","a","t","e">>, <<"n","e","w","s">>, <<"b","l","o","g">>,
      <<"p","o","s","t">>, <<"a","r","t","i","c","l","e">> }

\* /^(tip|guide|how-?to|tutorial)$/i
TagWordsGuide ==
    { <<"t","i","p">>, <<"g","u","i","d","e">>, <<"h","o","w","t","o">>,
      <<"h","o","w","-","t","o">>, <<"t","u","t","o","r","i","a","l">> }

\* /^#\w+$/
MatchesHashtag(s) ==
    /\ Len(s) >= 2
    /\ s[1] = "#"
    /\ \A i \in 2..Len(s) : s[i] \in WordChars

\* /^\d{1,2}\/\d{1,2}$/
MatchesDate(s) ==
    \E k \in 1..2 : \E m \in 1..2 :
        /\ Len(s) = k + 1 + m
        /\ \A i \in 1..k : s[i] \in Digits
        /\ s[k + 1] = "/"
        /\ \A i \in (k + 2)..(k + 1 + m) : s[i] \in Digits

\* pattern.test(s) for some pattern of TAG_PATTERNS
TAG_PATTERNS(s) ==
    \/ toLowerCase(s) \in TagWordsStatus
    \/ toLowerCase(s) \in TagWordsContent
    \/ toLowerCase(s) \in TagWordsGuide
    \/ MatchesHashtag(s)
    \/ MatchesDate(s)

\* text.trim().split(/\s+/).filter(word => word.length > 0).length
countWords(text) ==
    Cardinality({i \in 1..Len(text) :
        /\ text[i] \notin WhiteSpace
        /\ (i = 1 \/ text[i - 1] \in WhiteSpace)})

\* /[.!?]$/.test(text.trim())
hasPunctuation(text) ==
    LET t == trim(text)
    IN  Len(t) > 0 /\ t[Len(t)] \in {".", "!", "?"}

hasActionWord(text) ==
    LET lower == toLowerCase(text)
    IN  \/ \E w \in 1..Len(CTA_WORDS) : includes(lower, CTA_WORDS[w])
        \/ \E i \in 1..Len(text) : text[i] \in ArrowGlyphs

\* isTag without the early return for more than three words
isTag_anyWordCount(text) ==
    LET trimmed == trim(text)
    IN  IF TAG_PATTERNS(trimmed) THEN TRUE
        ELSE IF trimmed = toUpperCase(trimmed) /\ Len(trimmed) <= 15 THEN TRUE
        ELSE FALSE

isTag(text) ==
    LET trimmed == trim(text)
    IN  IF countWords(trimmed) > 3 THEN FALSE
        ELSE IF TAG_PATTERNS(trimmed) THEN TRUE
        ELSE IF trimmed = toUpperCase(trimmed) /\ Len(trimmed) <= 15 THEN TRUE
        ELSE FALSE

\* detectType with the call-to-action rule cut off below five words
detectType_shortCta(text) ==
    LET wordCount == countWords(text)
        hasAction == hasActionWord(text)
        isPunctated == hasPunctuation(text)
        decision ==
            IF isTag(text) THEN <<"tag", 9000>>
            ELSE IF hasAction /\ wordCount < 5 THEN <<"cta", 8500>>
            ELSE IF wordCount <= 10 /\ ~isPunctated THEN <<"headline", 8000>>
            ELSE IF wordCount <= 30 THEN <<"subhead", 7500>>
            ELSE <<"body", 7000>>
    IN  [ text |-> text, type |-> decision[1], wordCount |-> wordCount,
          charCount |-> Len(text), hasAction |-> hasAction,
          isPunctated |-> isPunctated, confidence |-> decision[2] ]

detectType(text) ==
    LET wordCount == countWords(text)
        hasAction == hasActionWord(text)
        isPunctated == hasPunctuation(text)
        decision ==
            IF isTag(text) THEN <<"tag", 9000>>
            ELSE IF hasAction /\ wordCount <= 5 THEN <<"cta", 8500>>
            ELSE IF wordCount <= 10 /\ ~isPunctated THEN <<"headline", 8000>>
            ELSE IF wordCount <= 30 THEN <<"subhead", 7500>>
            ELSE <<"body", 7000>>
    IN  [ text |-> text, type |-> decision[1], wordCount |-> wordCount,
          charCount |-> Len(text), hasAction |-> hasAction,
          isPunctated |-> isPunctated, confidence |-> decision[2] ]

\* the object pushed for an input with a type
explicitResult(input) ==
    [ text |-> input.text, type |-> input.type,
      wordCount |-> countWords(input.text), charCount |-> Len(input.text),
      hasAction |-> hasActionWord(input.text),
      isPunctated |-> hasPunctuation(input.text), confidence |-> 10000 ]

\* ['tag', 'headline', 'subhead', 'body', 'cta'].indexOf(type)
typeOrder(type) ==
    CASE type = "tag" -> 0
      [] type = "headline" -> 1
      [] type = "subhead" -> 2
      [] type = "body" -> 3
      [] type = "cta" -> 4

\* sortByType placing an element in front of the elements of its own type
RECURSIVE sortByType_tiesReversed(_)
sortByType_tiesReversed(rs) ==
    IF Len(rs) <= 1 THEN rs
    ELSE LET front == sortByType_tiesReversed(SubSeq(rs, 1, Len(rs) - 1))
             x == rs[Len(rs)]
             keep == {i \in 1..Len(front) :
                         typeOrder(front[i].type) - typeOrder(x.type) < 0}
             at == Cardinality(keep)
         IN  SubSeq(front, 1, at) \o <<x>> \o SubSeq(front, at + 1, Len(front))

\* Array.prototype.sort is stable: an element goes behind every element that
\* does not compare greater than it
RECURSIVE sortByType(_)
sortByType(rs) ==
    IF Len(rs) <= 1 THEN rs
    ELSE LET front == sortByType(SubSeq(rs, 1, Len(rs) - 1))
             x == rs[Len(rs)]
             keep == {i \in 1..Len(front) :
                         typeOrder(front[i].type) - typeOrder(x.type) <= 0}
             at == Cardinality(keep)
         IN  SubSeq(front, 1, at) \o <<x>> \o SubSeq(front, at + 1, Len(front))

\* demoteLaterHeadlines sparing the objects pushed for typed inputs
demoteLaterHeadlines_spareTyped(adjusted) ==
    LET heads == {i \in 1..Len(adjusted) : adjusted[i].type = "headline"}
        first == CHOOSE i \in heads : \A k \in heads : i <= k
    IN  [i \in 1..Len(adjusted) |->
            IF adjusted[i].type = "headline" /\ i # first
               /\ adjusted[i].confidence # 10000
            THEN [adjusted[i] EXCEPT !.type = "subhead",
                                     !.confidence = (@ * 8) \div 10]
            ELSE adjusted[i]]

\* demoteLaterHeadlines with the promotion factor 0.7 in place of 0.8
demoteLaterHeadlines_factor(adjusted) ==
    LET heads == {i \in 1..Len(adjusted) : adjusted[i].type = "headline"}
        first == CHOOSE i \in heads : \A k \in heads : i <= k
    IN  [i \in 1..Len(adjusted) |->
            IF adjusted[i].type = "headline" /\ i # first
            THEN [adjusted[i] EXCEPT !.type = "subhead",
                                     !.confidence = (@ * 7) \div 10]
            ELSE adjusted[i]]

\* the loop of lines 120-131: every headline behind the first one is demoted
demoteLaterHeadlines(adjusted) ==
    LET heads == {i \in 1..Len(adjusted) : adjusted[i].type = "headline"}
        first == CHOOSE i \in heads : \A k \in heads : i <= k
    IN  [i \in 1..Len(adjusted) |->
            IF adjusted[i].type = "headline" /\ i # first
            THEN [adjusted[i] EXCEPT !.type = "subhead",
                                     !.confidence = (@ * 8) \div 10]
            ELSE adjusted[i]]

\* promoteCandidate looking for a candidate of any word count
promoteCandidate_anyLength(adjusted) ==
    LET cands == {i \in 1..Len(adjusted) :
                     /\ adjusted[i].type # "cta"
                     /\ adjusted[i].type # "tag"}
    IN  IF cands = {} THEN adjusted
        ELSE LET c == CHOOSE i \in cands : \A k \in cands : i <= k
             IN  [adjusted EXCEPT ![c].type = "headline",
                                  ![c].confidence = (@ * 7) \div 10]

\* lines 133-139: adjusted.find(...) and the promotion of the candidate
promoteCandidate(adjusted) ==
    LET cands == {i \in 1..Len(adjusted) :
                     /\ adjusted[i].wordCount <= 15
                     /\ adjusted[i].type # "cta"
                     /\ adjusted[i].type # "tag"}
    IN  IF cands = {} THEN adjusted
        ELSE LET c == CHOOSE i \in cands : \A k \in cands : i <= k
             IN  [adjusted EXCEPT ![c].type = "headline",
                                  ![c].confidence = (@ * 7) \div 10]

ensureHierarchy(rs) ==
    LET headlines == {i \in 1..Len(rs) : rs[i].type = "headline"}
        afterDemote ==
            IF Cardinality(headlines) > 1 THEN demoteLaterHeadlines(rs) ELSE rs
        afterPromote ==
            IF Cardinality(headlines) = 0 /\ Len(rs) > 0
            THEN promoteCandidate(afterDemote) ELSE afterDemote
    IN  sortByType(afterPromote)

(***************************************************************************)
(* The document tree (Figma's SceneNode objects).  A document is the       *)
(* sequence of its nodes; the position of a node in the sequence is its    *)
(* identity, tree[1] is the root frame, and `children` lists the           *)
(* positions of a node's children in order.                                *)
(***************************************************************************)
Root == 1

NodeKinds == {"FRAME", "GROUP", "COMPONENT", "TEXT", "ELLIPSE", "RECTANGLE"}

\* the node types for which 'children' in node holds
ContainerKinds == {"FRAME", "GROUP", "COMPONENT"}

hasChildren(node) == node.type \in ContainerKinds

\* the value of a function that returns null, undefined or no node
Null == <<"(null)">>

NoNode == 0

InSeq(seq, x) == \E i \in 1..Len(seq) : seq[i] = x

(***************************************************************************)
(* defaults.ts                                                             *)
(***************************************************************************)
LAYER_NAMES ==
    [ root |-> <<"A","s","s","e","t"," ","F","r","a","m","e">>,
      content |-> <<"c","o","n","t","e","n","t">>,
      headline |-> <<"h","e","a","d","l","i","n","e">>,
      subhead |-> <<"s","u","b","h","e","a","d">>,
      body |-> <<"b","o","d","y">>,
      cta |-> <<"c","t","a">>,
      tag |-> <<"t","a","g">>,
      branding |-> <<"b","r","a","n","d","i","n","g">>,
      logo |-> <<"l","o","g","o">>,
      tagline |-> <<"t","a","g","l","i","n","e">>,
      decorative |-> <<"d","e","c","o","r","a","t","i","v","e">>,
      glow |-> <<"g","l","o","w">>,
      accentShape |-> <<"a","c","c","e","n","t","-","s","h","a","p","e">>,
      pattern |-> <<"p","a","t","t","e","r","n">>,
      background |-> <<"b","a","c","k","g","r","o","u","n","d">> ]

(***************************************************************************)
(* layer-manager.ts                                                        *)
(***************************************************************************)
\* the substrings getNormalizedName looks for
Keyword ==
    [ head |-> <<"h","e","a","d">>,
      sub |-> <<"s","u","b">>,
      body |-> <<"b","o","d","y">>,
      description |-> <<"d","e","s","c","r","i","p","t","i","o","n">>,
      cta |-> <<"c","t","a">>,
      button |-> <<"b","u","t","t","o","n">>,
      tag |-> <<"t","a","g">>,
      label |-> <<"l","a","b","e","l">>,
      content |-> <<"c","o","n","t","e","n","t">>,
      text |-> <<"t","e","x","t">>,
      brand |-> <<"b","r","a","n","d">>,
      logo |-> <<"l","o","g","o">>,
      decor |-> <<"d","e","c","o","r">>,
      effect |-> <<"e","f","f","e","c","t">>,
      background |-> <<"b","a","c","k","g","r","o","u","n","d">>,
      bg |-> <<"b","g">>,
      glow |-> <<"g","l","o","w">>,
      blur |-> <<"b","l","u","r">> ]

getNormalizedName(node) ==
    LET currentName == toLowerCase(node.name)
        has(k) == includes(currentName, k)
    IN  IF node.type = "TEXT" /\ has(Keyword.head) /\ ~has(Keyword.sub)
            THEN LAYER_NAMES.headline
        ELSE IF node.type = "TEXT" /\ has(Keyword.sub)
            THEN LAYER_NAMES.subhead
        ELSE IF node.type = "TEXT" /\ (has(Keyword.body) \/ has(Keyword.description))
            THEN LAYER_NAMES.body
        ELSE IF node.type = "TEXT" /\ (has(Keyword.cta) \/ has(Keyword.button))
            THEN LAYER_NAMES.cta
        ELSE IF node.type = "TEXT" /\ (has(Keyword.tag) \/ has(Keyword.label))
            THEN LAYER_NAMES.tag
        ELSE IF node.type \in {"FRAME", "GROUP"} /\ (has(Keyword.content) \/ has(Keyword.text))
            THEN LAYER_NAMES.content
        ELSE IF node.type \in {"FRAME", "GROUP"} /\ (has(Keyword.brand) \/ has(Keyword.logo))
            THEN LAYER_NAMES.branding
        ELSE IF node.type \in {"FRAME", "GROUP"} /\ (has(Keyword.decor) \/ has(Keyword.effect))
            THEN LAYER_NAMES.decorative
        ELSE IF node.type \in {"FRAME", "GROUP"} /\ (has(Keyword.background) \/ has(Keyword.bg))
            THEN LAYER_NAMES.background
        ELSE IF has(Keyword.logo) /\ node.type # "TEXT"
            THEN LAYER_NAMES.logo
        ELSE IF node.type = "ELLIPSE" /\ (has(Keyword.glow) \/ has(Keyword.blur))
            THEN LAYER_NAMES.glow
        ELSE Null

\* normalizeLayerNames(node); normalizeFrom is its loop from child i on
RECURSIVE normalizeLayerNames(_, _), normalizeFrom(_, _, _)
normalizeLayerNames(t, node) ==
    IF ~hasChildren(t[node]) THEN t ELSE normalizeFrom(t, node, 1)

normalizeFrom(t, node, i) ==
    IF i > Len(t[node].children) THEN t
    ELSE LET child == t[node].children[i]
             normalizedName == getNormalizedName(t[child])
             renamed ==
                 IF normalizedName # Null
                 THEN [t EXCEPT ![child].name = normalizedName] ELSE t
             inner ==
                 IF hasChildren(renamed[child])
                 THEN normalizeLayerNames(renamed, child) ELSE renamed
         IN  normalizeFrom(inner, node, i + 1)

\* frame.insertChild(index, child) for a child of the frame: the child is
\* moved to position index (counted from 0) of the frame's children
insertChild(children, index, child) ==
    LET rest == SelectSeq(children, LAMBDA c : c # child)
    IN  SubSeq(rest, 1, index) \o <<child>> \o SubSeq(rest, index + 1, Len(rest))

\* frame.children.find(c => c.name === name)
findChildNamed(t, children, name) ==
    LET hits == {i \in 1..Len(children) : t[children[i]].name = name}
    IN  IF hits = {} THEN NoNode
        ELSE children[CHOOSE i \in hits : \A k \in hits : i <= k]

layerOrder ==
    << LAYER_NAMES.background, LAYER_NAMES.decorative,
       LAYER_NAMES.branding, LAYER_NAMES.content >>

\* the loop of lines 71-73 run from index 0 upwards
RECURSIVE insertAllFrom_ascending(_, _, _)
insertAllFrom_ascending(children, allChildren, i) ==
    IF i < 1 THEN children
    ELSE insertAllFrom_ascending(
             insertChild(children, 0, allChildren[Len(allChildren) - i + 1]),
             allChildren, i - 1)

\* the loop of lines 71-73, from index i down to 0
RECURSIVE insertAllFrom(_, _, _)
insertAllFrom(children, allChildren, i) ==
    IF i < 1 THEN children
    ELSE insertAllFrom(insertChild(children, 0, allChildren[i]), allChildren, i - 1)

\* organizeLayerOrder telling the other children apart by name, not by node
organizeLayerOrder_byName(t, frame) ==
    IF Len(t[frame].children) = 0 THEN t
    ELSE LET found ==
                 [k \in 1..Len(layerOrder) |->
                     findChildNamed(t, t[frame].children, layerOrder[k])]
             orderedChildren == SelectSeq(found, LAMBDA c : c # NoNode)
             otherChildren ==
                 SelectSeq(t[frame].children,
                           LAMBDA c : \A k \in 1..Len(orderedChildren) :
                                         t[orderedChildren[k]].name # t[c].name)
             allChildren == orderedChildren \o otherChildren
         IN  [t EXCEPT ![frame].children = allChildren]

organizeLayerOrder(t, frame) ==
    IF Len(t[frame].children) = 0 THEN t
    ELSE LET found ==
                 [k \in 1..Len(layerOrder) |->
                     findChildNamed(t, t[frame].children, layerOrder[k])]
             orderedChildren == SelectSeq(found, LAMBDA c : c # NoNode)
             otherChildren ==
                 SelectSeq(t[frame].children, LAMBDA c : ~InSeq(orderedChildren, c))
             allChildren == orderedChildren \o otherChildren
         IN  [t EXCEPT ![frame].children =
                 insertAllFrom(@, allChildren, Len(allChildren))]

applyNaming(t) == organizeLayerOrder(normalizeLayerNames(t, Root), Root)

\* mapStructure recording the names of the grandchildren as top-level keys
\* too
mapStructure_deep(t, node) ==
    {t[t[node].children[i]].name : i \in 1..Len(t[node].children)}
        \cup UNION {{t[t[t[node].children[i]].children[j]].name :
                        j \in 1..Len(t[t[node].children[i]].children)} :
                    i \in 1..Len(t[node].children)}

\* the top-level keys mapStructure records: the canonical names found
\* among the direct children
mapStructure(t, node) ==
    {t[t[node].children[i]].name : i \in 1..Len(t[node].children)}

validate(t, node) ==
    IF t[node].type # "FRAME"
    THEN [ valid |-> FALSE, errors |-> <<"Root node must be a FRAME">>,
           warnings |-> <<>>, suggestions |-> <<>> ]
    ELSE LET structure == mapStructure(t, node)
             errors ==
                 IF LAYER_NAMES.content \notin structure
                 THEN <<"Missing required layer: content">> ELSE <<>>
             warnings ==
                 IF LAYER_NAMES.branding \notin structure
                 THEN <<"Missing layer: branding">> ELSE <<>>
             suggestions ==
                 IF LAYER_NAMES.decorative \notin structure
                 THEN <<"Consider adding a decorative group">> ELSE <<>>
         IN  [ valid |-> Len(errors) = 0, errors |-> errors,
               warnings |-> warnings, suggestions |-> suggestions ]

\* findLayer: pre-order search; findLayerAmong searches the children from
\* child i on
RECURSIVE findLayer(_, _, _), findLayerAmong(_, _, _, _)
findLayer(t, node, layerName) ==
    IF t[node].name = layerName THEN node
    ELSE IF hasChildren(t[node]) THEN findLayerAmong(t, t[node].children, 1, layerName)
    ELSE NoNode

findLayerAmong(t, children, i, layerName) ==
    IF i > Len(children) THEN NoNode
    ELSE LET found == findLayer(t, children[i], layerName)
         IN  IF found # NoNode THEN found
             ELSE findLayerAmong(t, children, i + 1, layerName)

\* getTextLayers: the text nodes in pre-order
RECURSIVE getTextLayers(_, _), getTextLayersAmong(_, _, _)
getTextLayers(t, node) ==
    (IF t[node].type = "TEXT" THEN <<node>> ELSE <<>>)
        \o (IF hasChildren(t[node])
            THEN getTextLayersAmong(t, t[node].children, 1) ELSE <<>>)

getTextLayersAmong(t, children, i) ==
    IF i > Len(children) THEN <<>>
    ELSE getTextLayers(t, children[i]) \o getTextLayersAmong(t, children, i + 1)

(***************************************************************************)
(* JavaScript objects.  A property read obj[key] of an object literal      *)
(* finds the object's own properties and, failing that, the members the    *)
(* object inherits from Object.prototype.                                  *)
(***************************************************************************)
ObjectPrototypeMembers ==
    { "constructor", "toString", "toLocaleString", "valueOf", "hasOwnProperty",
      "isPrototypeOf", "propertyIsEnumerable", "__proto__",
      "__defineGetter__", "__defineSetter__", "__lookupGetter__",
      "__lookupSetter__" }

\* the value undefined where a string is expected
Undefined == <<"(undefined)">>

\* the property key the value undefined is converted to
UndefinedKey == "undefined"

\* obj[key] for an object whose own properties are strings; the inherited
\* members are functions and objects, none of them a string, all truthy
OwnValue(obj, key) == IF key \in DOMAIN obj THEN obj[key] ELSE Undefined

Truthy(str) == str # Undefined /\ str # <<>>

\* an inherited member where a string is expected: its conversion to a
\* string ("function Object() { [native code] }", "[object Object]")
InheritedMember == <<"(inherited member)">>

\* obj[key], own or inherited
PropertyValue(obj, key) ==
    IF key \in DOMAIN obj THEN obj[key]
    ELSE IF key \in ObjectPrototypeMembers THEN InheritedMember
    ELSE Undefined

(***************************************************************************)
(* defaults.ts: THEMES and DEFAULT_COLORS                                  *)
(***************************************************************************)
THEMES ==
    [ dark |-> [ name |-> "Dark Mode", background |-> "background_dark",
                 text |-> "text_light", accent |-> "primary", useGlow |-> TRUE ],
      light |-> [ name |-> "Light Mode", background |-> "background_light",
                  text |-> "text_dark", accent |-> "primary", useGlow |-> FALSE ],
      bold |-> [ name |-> "Bold", background |-> "primary",
                 text |-> "text_light", accent |-> "secondary", useGlow |-> FALSE ],
      minimal |-> [ name |-> "Minimal", background |-> "background_light",
                    text |-> "primary", accent |-> "accent", useGlow |-> FALSE ],
      gradient |-> [ name |-> "Gradient", background |-> "gradient",
                     text |-> "text_light", accent |-> "accent", useGlow |-> TRUE ] ]

DEFAULT_COLORS ==
    [ primary |-> <<"#","3","B","8","2","F","6">>,
      secondary |-> <<"#","1","E","2","9","3","B">>,
      accent |-> <<"#","1","0","B","9","8","1">>,
      background_light |-> <<"#","F","8","F","A","F","C">>,
      background_dark |-> <<"#","0","F","1","7","2","A">>,
      text_light |-> <<"#","F","8","F","A","F","C">>,
      text_dark |-> <<"#","0","F","1","7","2","A">> ]

(***************************************************************************)
(* theme-engine.ts.  A colour channel n/255 is stored as the integer n.    *)
(***************************************************************************)
NoConfig == [ null |-> TRUE ]

\* THEMES[name] is truthy: an own theme or an inherited member
hasTheme(name) ==
    name \in (DOMAIN THEMES) \cup ObjectPrototypeMembers

\* THEMES[name] as read by the apply steps: an inherited member has
\* none of the fields of a theme, so each field reads undefined
themeOf(name) ==
    IF name \in DOMAIN THEMES THEN THEMES[name]
    ELSE [ name |-> UndefinedKey, background |-> UndefinedKey,
           text |-> UndefinedKey, accent |-> UndefinedKey, useGlow |-> FALSE ]

HexDigitValue ==
    "0" :> 0 @@ "1" :> 1 @@ "2" :> 2 @@ "3" :> 3 @@ "4" :> 4 @@ "5" :> 5 @@
    "6" :> 6 @@ "7" :> 7 @@ "8" :> 8 @@ "9" :> 9 @@ "a" :> 10 @@ "b" :> 11 @@
    "c" :> 12 @@ "d" :> 13 @@ "e" :> 14 @@ "f" :> 15

\* parseInt(pair, 16) for two hexadecimal digits
parseHexPair(s, i) ==
    16 * HexDigitValue[LowerChar(s[i])] + HexDigitValue[LowerChar(s[i + 1])]

hexToRgb(hex) ==
    LET digits ==
            IF Len(hex) > 0 /\ hex[1] = "#" THEN SubSeq(hex, 2, Len(hex)) ELSE hex
        matches ==
            /\ Len(digits) = 6
            /\ \A i \in 1..6 : LowerChar(digits[i]) \in DOMAIN HexDigitValue
    IN  IF matches
        THEN [ r |-> parseHexPair(digits, 1), g |-> parseHexPair(digits, 3),
               b |-> parseHexPair(digits, 5) ]
        ELSE [ r |-> 0, g |-> 0, b |-> 0 ]

\* getColor without the fallback to DEFAULT_COLORS[key]
getColor_noDefault(cfg, key) ==
    LET colors ==
            IF ~cfg.null /\ cfg.hasColors THEN cfg.colors ELSE DEFAULT_COLORS
        hex ==
            IF Truthy(PropertyValue(colors, key)) THEN PropertyValue(colors, key)
            ELSE <<"#","0","0","0","0","0","0">>
    IN  hexToRgb(hex)

getColor(cfg, key) ==
    LET colors ==
            IF ~cfg.null /\ cfg.hasColors THEN cfg.colors ELSE DEFAULT_COLORS
        hex ==
            IF Truthy(PropertyValue(colors, key)) THEN PropertyValue(colors, key)
            ELSE IF Truthy(PropertyValue(DEFAULT_COLORS, key))
                THEN PropertyValue(DEFAULT_COLORS, key)
            ELSE <<"#","0","0","0","0","0","0">>
    IN  hexToRgb(hex)

solidFill(color) == << [ type |-> "SOLID", color |-> color ] >>

applyGradientBackground(t, cfg) ==
    LET primaryColor == getColor(cfg, "primary")
        secondaryColor == getColor(cfg, "secondary")
    IN  [t EXCEPT ![Root].fills =
            << [ type |-> "GRADIENT_LINEAR",
                 gradientStops |->
                     << [ position |-> 0, color |-> primaryColor, a |-> 1 ],
                        [ position |-> 1, color |-> secondaryColor, a |-> 1 ] >> ] >>]

applyBackgroundColor(t, cfg, theme) ==
    IF theme.background = "gradient" THEN applyGradientBackground(t, cfg)
    ELSE [t EXCEPT ![Root].fills = solidFill(getColor(cfg, theme.background))]

\* findTextLayers: the text nodes in pre-order
RECURSIVE findTextLayers(_, _), findTextLayersAmong(_, _, _)
findTextLayers(t, node) ==
    (IF t[node].type = "TEXT" THEN <<node>> ELSE <<>>)
        \o (IF hasChildren(t[node])
            THEN findTextLayersAmong(t, t[node].children, 1) ELSE <<>>)

findTextLayersAmong(t, children, i) ==
    IF i > Len(children) THEN <<>>
    ELSE findTextLayers(t, children[i]) \o findTextLayersAmong(t, children, i + 1)

\* findLayerByName: pre-order search for the first node of that name
RECURSIVE findLayerByName(_, _, _), findLayerByNameAmong(_, _, _, _)
findLayerByName(t, node, name) ==
    IF t[node].name = name THEN node
    ELSE IF hasChildren(t[node])
         THEN findLayerByNameAmong(t, t[node].children, 1, name)
    ELSE NoNode

findLayerByNameAmong(t, children, i, name) ==
    IF i > Len(children) THEN NoNode
    ELSE LET found == findLayerByName(t, children[i], name)
         IN  IF found # NoNode THEN found
             ELSE findLayerByNameAmong(t, children, i + 1, name)

applyTextColors(t, cfg, theme) ==
    LET textColor == getColor(cfg, theme.text)
        textLayers == findTextLayers(t, Root)
    IN  [n \in 1..Len(t) |->
            IF InSeq(textLayers, n) /\ t[n].name # LAYER_NAMES.cta
            THEN [t[n] EXCEPT !.fills = solidFill(textColor)]
            ELSE t[n]]

\* applyAccentColors looking for the first text node named cta
applyAccentColors_firstTextCta(t, cfg, theme) ==
    LET accentColor == getColor(cfg, theme.accent)
        ctas == {n \in 1..Len(t) :
                    t[n].name = LAYER_NAMES.cta /\ t[n].type = "TEXT"}
    IN  IF ctas # {}
        THEN [t EXCEPT ![CHOOSE n \in ctas : \A k \in ctas : n <= k].fills =
                           solidFill(accentColor)]
        ELSE t

applyAccentColors(t, cfg, theme) ==
    LET accentColor == getColor(cfg, theme.accent)
        ctaNode == findLayerByName(t, Root, LAYER_NAMES.cta)
    IN  IF ctaNode # NoNode /\ t[ctaNode].type = "TEXT"
        THEN [t EXCEPT ![ctaNode].fills = solidFill(accentColor)]
        ELSE t

applyGlowEffect(t, theme) ==
    LET decorativeGroup == findLayerByName(t, Root, LAYER_NAMES.decorative)
    IN  IF decorativeGroup = NoNode \/ ~hasChildren(t[decorativeGroup]) THEN t
        ELSE LET glowLayer == findLayerByName(t, decorativeGroup, LAYER_NAMES.glow)
             IN  IF theme.useGlow /\ glowLayer # NoNode
                     THEN [t EXCEPT ![glowLayer].visible = TRUE]
                 ELSE IF glowLayer # NoNode
                     THEN [t EXCEPT ![glowLayer].visible = FALSE]
                 ELSE t

\* ThemeEngine.apply(frame, themeName) with the engine's brandConfig cfg
apply(t, cfg, name) ==
    IF ~hasTheme(name) THEN t
    ELSE LET theme == themeOf(name)
         IN  applyGlowEffect(
                 applyAccentColors(
                     applyTextColors(applyBackgroundColor(t, cfg, theme), cfg, theme),
                     cfg, theme),
                 theme)

(***************************************************************************)
(* audit-engine.ts                                                         *)
(***************************************************************************)
\* the family of a node's fontName when fontName is figma.mixed
Mixed == "figma.mixed"

SAFE_ZONE == [ marginPercent |-> 5, minPixels |-> 20 ]

Min(a, b) == IF a <= b THEN a ELSE b

Max(a, b) == IF a >= b THEN a ELSE b

\* Math.round(num / den) for num >= 0 and den > 0
Round(num, den) == (2 * num + den) \div (2 * den)

checkColorCompliance(t) ==
    [ name |-> "Color Compliance", passed |-> TRUE,
      message |-> "All colors match brand palette", severity |-> "error" ]

\* the allow-list of checkTypography
allowedFonts(cfg) ==
    LET typography(field) ==
            IF ~cfg.null /\ cfg.hasTypography /\ cfg.typography[field] # ""
            THEN cfg.typography[field] ELSE "Inter"
    IN  { typography("headline_font"), typography("body_font") }

checkTypography(t, cfg) ==
    LET textLayers == getTextLayers(t, Root)
        bad == {i \in 1..Len(textLayers) :
                   /\ t[textLayers[i]].fontName # Mixed
                   /\ t[textLayers[i]].fontName \notin allowedFonts(cfg)}
    IN  IF bad # {}
        THEN LET first == CHOOSE i \in bad : \A k \in bad : i <= k
             IN  [ name |-> "Typography", passed |-> FALSE,
                   message |-> "Non-brand font: " \o t[textLayers[first]].fontName,
                   severity |-> "error" ]
        ELSE [ name |-> "Typography", passed |-> TRUE,
               message |-> "All text uses approved fonts", severity |-> "error" ]

checkLogoPlacement(t) ==
    IF findLayer(t, Root, LAYER_NAMES.logo) = NoNode
    THEN [ name |-> "Logo Placement", passed |-> FALSE,
           message |-> "Logo layer not found", severity |-> "warning" ]
    ELSE [ name |-> "Logo Placement", passed |-> TRUE,
           message |-> "Logo correctly placed", severity |-> "warning" ]

checkLayerStructure(t) ==
    LET validation == validate(t, Root)
    IN  [ name |-> "Layer Structure", passed |-> validation.valid,
          message |-> IF validation.valid THEN "Layer structure follows convention"
                      ELSE validation.errors[1],
          severity |-> IF Len(validation.errors) > 0 THEN "error" ELSE "warning" ]

checkSafeZones(w, h) ==
    LET \* Math.round(Math.max(Math.min(w, h) * 0.05, 20))
        minMargin == Max(Round(Min(w, h) * SAFE_ZONE.marginPercent, 100),
                         SAFE_ZONE.minPixels)
    IN  [ name |-> "Safe Zones", passed |-> TRUE,
          message |-> "All text within " \o ToString(minMargin) \o "px margin",
          severity |-> "warning" ]

checkContrastRatio(t) ==
    [ name |-> "Contrast Ratio", passed |-> TRUE,
      message |-> "Contrast ratio: 4.5:1+ (WCAG AA compliant)",
      severity |-> "error" ]

\* checkExportQuality with a minimum height of 201 in place of 200
checkExportQuality_offByOne(w, h) ==
    IF w < 600 \/ h < 201
    THEN [ name |-> "Export Quality", passed |-> FALSE,
           message |-> "Resolution below minimum", severity |-> "error" ]
    ELSE [ name |-> "Export Quality", passed |-> TRUE,
           message |-> "Resolution: " \o ToString(w) \o "x" \o ToString(h) \o "px",
           severity |-> "warning" ]

checkExportQuality(w, h) ==
    IF w < 600 \/ h < 200
    THEN [ name |-> "Export Quality", passed |-> FALSE,
           message |-> "Resolution below minimum", severity |-> "error" ]
    ELSE [ name |-> "Export Quality", passed |-> TRUE,
           message |-> "Resolution: " \o ToString(w) \o "x" \o ToString(h) \o "px",
           severity |-> "warning" ]

\* lines 50-58 with the score rounded down
aggregate_floor(t, checks) ==
    LET passedChecks == Cardinality({i \in 1..Len(checks) : checks[i].passed})
        failedWarnings ==
            SelectSeq(checks, LAMBDA c : ~c.passed /\ c.severity = "warning")
    IN  [ nodeId |-> Root, nodeName |-> t[Root].name,
          passed |-> {i \in 1..Len(checks) :
                         checks[i].severity = "error" /\ ~checks[i].passed} = {},
          score |-> (passedChecks * 100) \div Len(checks),
          checks |-> checks,
          warnings |-> [i \in 1..Len(failedWarnings) |-> failedWarnings[i].message] ]

\* lines 50-58 with passed taken over the checks of every severity
aggregate_anySeverity(t, checks) ==
    LET passedChecks == Cardinality({i \in 1..Len(checks) : checks[i].passed})
        failedWarnings ==
            SelectSeq(checks, LAMBDA c : ~c.passed /\ c.severity = "warning")
    IN  [ nodeId |-> Root, nodeName |-> t[Root].name,
          passed |-> {i \in 1..Len(checks) : ~checks[i].passed} = {},
          score |-> Round(passedChecks * 100, Len(checks)),
          checks |-> checks,
          warnings |-> [i \in 1..Len(failedWarnings) |-> failedWarnings[i].message] ]

\* lines 50-58: score, warnings and passed from the list of checks
aggregate(t, checks) ==
    LET passedChecks == Cardinality({i \in 1..Len(checks) : checks[i].passed})
        failedWarnings ==
            SelectSeq(checks, LAMBDA c : ~c.passed /\ c.severity = "warning")
    IN  [ nodeId |-> Root, nodeName |-> t[Root].name,
          passed |-> {i \in 1..Len(checks) :
                         checks[i].severity = "error" /\ ~checks[i].passed} = {},
          score |-> Round(passedChecks * 100, Len(checks)),
          checks |-> checks,
          warnings |-> [i \in 1..Len(failedWarnings) |-> failedWarnings[i].message] ]

\* AuditEngine.audit(frame) for a frame of size w x h, with the engine's
\* brandConfig cfg (the timestamp of the result is left out)
audit(t, w, h, cfg) ==
    aggregate(t,
        << checkColorCompliance(t), checkTypography(t, cfg), checkLogoPlacement(t),
           checkLayerStructure(t), checkSafeZones(w, h), checkContrastRatio(t),
           checkExportQuality(w, h) >>)

(***************************************************************************)
(* audit-engine.ts: FeedbackSystem.  A Date is the number of days since    *)
(* an epoch; a rating average is stored in tenths (4.5 = 45).              *)
(***************************************************************************)
Outcomes == {"approved", "revised", "rejected"}

\* the data of the plugin when nothing was stored under storageKey
NoData == [ empty |-> TRUE ]

\* the number of entries saveToStorage keeps
RetentionCap == 1000

DecimalDigit == <<"0", "1", "2", "3", "4", "5", "6", "7", "8", "9">>

RECURSIVE toISOString(_)
\* JSON.stringify writes a Date as the text of toISOString(): here the
\* decimal digits of the number of days
toISOString(date) ==
    IF date < 10 THEN << DecimalDigit[date + 1] >>
    ELSE toISOString(date \div 10) \o << DecimalDigit[(date % 10) + 1] >>

RECURSIVE parseDate(_)
\* new Date(text) for the text JSON.parse returns for a timestamp
parseDate(text) ==
    IF Len(text) = 0 THEN 0
    ELSE 10 * parseDate(SubSeq(text, 1, Len(text) - 1))
             + (CHOOSE v \in 0..9 : DecimalDigit[v + 1] = text[Len(text)])

\* saveToStorage keeping the first 1000 entries: slice(0, 1000)
saveToStorage_firstEntries(log) ==
    LET kept == SubSeq(log, 1, Min(RetentionCap, Len(log)))
    IN  [ feedbackLog |->
            [i \in 1..Len(kept) |->
                [kept[i] EXCEPT !.timestamp = toISOString(@)]] ]

\* this.feedbackLog.slice(-1000), stringified and stored: each timestamp is
\* written as text
saveToStorage(log) ==
    LET kept == SubSeq(log, Max(1, Len(log) - RetentionCap + 1), Len(log))
    IN  [ feedbackLog |->
            [i \in 1..Len(kept) |->
                [kept[i] EXCEPT !.timestamp = toISOString(@)]] ]

\* the feedbackLog field after loadFromStorage() in the constructor, for
\* the data stored under storageKey
loadFromStorage(data) ==
    IF "feedbackLog" \notin DOMAIN data THEN <<>>
    ELSE [i \in 1..Len(data.feedbackLog) |->
             [data.feedbackLog[i] EXCEPT !.timestamp = parseDate(@)]]

\* `${issue.category}: ${issue.description}`
issueKey(issue) == issue.category \o ": " \o issue.description

\* the keys of the issues of the entries fs, in the order the loops of lines
\* 167-172 meet them
RECURSIVE issueKeys(_)
issueKeys(fs) ==
    IF fs = <<>> THEN <<>>
    ELSE [i \in 1..Len(Head(fs).issues) |-> issueKey(Head(fs).issues[i])]
             \o issueKeys(Tail(fs))

\* Object.entries(issueCounter).map(...): one object per key, in the order
\* the keys were inserted, with the number of times the key was met
issueEntries(keys) ==
    LET firsts == {i \in 1..Len(keys) : \A j \in 1..(i - 1) : keys[j] # keys[i]}
        order == SelectSeq([i \in 1..Len(keys) |-> i], LAMBDA i : i \in firsts)
    IN  [k \in 1..Len(order) |->
            [ issue |-> keys[order[k]],
              count |-> Cardinality({j \in 1..Len(keys) : keys[j] = keys[order[k]]}) ]]

\* .sort((a, b) => b.count - a.count): stable, an element goes behind every
\* element that does not compare greater than it
RECURSIVE sortByCount(_)
sortByCount(es) ==
    IF Len(es) <= 1 THEN es
    ELSE LET front == sortByCount(SubSeq(es, 1, Len(es) - 1))
             x == es[Len(es)]
             keep == {i \in 1..Len(front) : x.count - front[i].count <= 0}
             at == Cardinality(keep)
         IN  SubSeq(front, 1, at) \o <<x>> \o SubSeq(front, at + 1, Len(front))

RECURSIVE sumOverall(_)
sumOverall(fs) ==
    IF fs = <<>> THEN 0 ELSE Head(fs).ratings.overall + sumOverall(Tail(fs))

\* getSummary counting the entries of one more day before the cutoff
getSummary_earlierCutoff(log, clock, days) ==
    LET cutoff == clock - days
        recentFeedback == SelectSeq(log, LAMBDA f : f.timestamp >= cutoff - 1)
        totalAssets == Len(recentFeedback)
        outcomeCount(o) == Len(SelectSeq(recentFeedback, LAMBDA f : f.outcome = o))
        averageRating ==
            IF totalAssets > 0
            THEN Round(10 * sumOverall(recentFeedback), totalAssets) ELSE 0
        commonIssues == sortByCount(issueEntries(issueKeys(recentFeedback)))
    IN  [ totalAssets |-> totalAssets,
          approvedFirstTry |-> outcomeCount("approved"),
          neededRevision |-> outcomeCount("revised"),
          rejected |-> outcomeCount("rejected"),
          averageRating |-> averageRating,
          commonIssues |-> SubSeq(commonIssues, 1, Min(5, Len(commonIssues))),
          periodStart |-> cutoff,
          periodEnd |-> clock ]

\* getSummary(days) on the log, with the clock reading `clock`;
\* Math.round(averageRating * 10) / 10 is kept in tenths
getSummary(log, clock, days) ==
    LET cutoff == clock - days
        recentFeedback == SelectSeq(log, LAMBDA f : f.timestamp >= cutoff)
        totalAssets == Len(recentFeedback)
        outcomeCount(o) == Len(SelectSeq(recentFeedback, LAMBDA f : f.outcome = o))
        averageRating ==
            IF totalAssets > 0
            THEN Round(10 * sumOverall(recentFeedback), totalAssets) ELSE 0
        commonIssues == sortByCount(issueEntries(issueKeys(recentFeedback)))
    IN  [ totalAssets |-> totalAssets,
          approvedFirstTry |-> outcomeCount("approved"),
          neededRevision |-> outcomeCount("revised"),
          rejected |-> outcomeCount("rejected"),
          averageRating |-> averageRating,
          commonIssues |-> SubSeq(commonIssues, 1, Min(5, Len(commonIssues))),
          periodStart |-> cutoff,
          periodEnd |-> clock ]

(***************************************************************************)
(* brand-schema.ts: BrandConfigLoader.  A parsed config is the record of   *)
(* the sections its document holds; brand.name and the colors are strings. *)
(***************************************************************************)
HexDigits ==
    Digits \cup {"a", "b", "c", "d", "e", "f", "A", "B", "C", "D", "E", "F"}

RECURSIVE skip(_, _, _)
\* the index after the longest run of characters of the class that starts
\* at index i (the greedy match of class*)
skip(s, i, class) ==
    IF i <= Len(s) /\ s[i] \in class THEN skip(s, i + 1, class) ELSE i

\* the character at index i, none beyond the end
charAt(s, i) == IF i \in 1..Len(s) THEN s[i] ELSE ""

startsWith(s, prefix) ==
    Len(s) >= Len(prefix) /\ SubSeq(s, 1, Len(prefix)) = prefix

\* /^#([A-Fa-f0-9]{6}|[A-Fa-f0-9]{3})$/
MatchesHexColor(s) ==
    /\ Len(s) \in {4, 7}
    /\ s[1] = "#"
    /\ \A i \in 2..Len(s) : s[i] \in HexDigits

\* /^rgba?\(\s*\d+\s*,\s*\d+\s*,\s*\d+(,\s*[\d.]+)?\s*\)$/
MatchesRgbColor(s) ==
    LET open == IF startsWith(s, <<"r","g","b","a","(">>) THEN 5
                ELSE IF startsWith(s, <<"r","g","b","(">>) THEN 4
                ELSE 0
        r1 == skip(s, open + 1, WhiteSpace)
        r2 == skip(s, r1, Digits)
        c1 == skip(s, r2, WhiteSpace)
        g1 == skip(s, c1 + 1, WhiteSpace)
        g2 == skip(s, g1, Digits)
        c2 == skip(s, g2, WhiteSpace)
        b1 == skip(s, c2 + 1, WhiteSpace)
        b2 == skip(s, b1, Digits)
        a1 == skip(s, b2 + 1, WhiteSpace)
        a2 == skip(s, a1, Digits \cup {"."})
        hasAlpha == charAt(s, b2) = "," /\ a2 > a1
        close == skip(s, IF hasAlpha THEN a2 ELSE b2, WhiteSpace)
    IN  /\ open > 0
        /\ r2 > r1
        /\ charAt(s, c1) = ","
        /\ g2 > g1
        /\ charAt(s, c2) = ","
        /\ b2 > b1
        /\ charAt(s, close) = ")"
        /\ close = Len(s)

\* isValidColor without the rgb()/rgba() alternative
isValidColor_hexOnly(color) == MatchesHexColor(color)

isValidColor(color) == MatchesHexColor(color) \/ MatchesRgbColor(color)

colorFields ==
    << "primary", "secondary", "accent", "background_light", "background_dark",
       "text_light", "text_dark" >>

RECURSIVE colorErrors(_, _)
\* the errors the loop over colorFields pushes from field i on
colorErrors(colors, i) ==
    IF i > Len(colorFields) THEN <<>>
    ELSE LET field == colorFields[i]
             value == PropertyValue(colors, field)
             added ==
                 IF ~Truthy(value)
                 THEN << "colors." \o field \o " is required" >>
                 ELSE IF ~isValidColor(value)
                     THEN << "colors." \o field \o " has invalid format" >>
                 ELSE <<>>
         IN  added \o colorErrors(colors, i + 1)

\* BrandConfigLoader.validate
validateConfig(cfg) ==
    LET name == IF cfg.hasBrand THEN cfg.brand.name ELSE Undefined
        errors ==
            (IF ~Truthy(name) THEN << "brand.name is required" >> ELSE <<>>)
            \o (IF ~cfg.hasColors THEN << "colors section is required" >>
                ELSE colorErrors(cfg.colors, 1))
            \o (IF ~cfg.hasTypography
                THEN << "typography section is required" >> ELSE <<>>)
        warnings ==
            IF ~cfg.hasLogo THEN << "logo section is missing" >> ELSE <<>>
    IN  [ valid |-> Len(errors) = 0, errors |-> errors, warnings |-> warnings ]

(***************************************************************************)
(* Inputs of the text specification                                        *)
(***************************************************************************)
T_launch == <<"L","a","u","n","c","h"," ","D","a","y"," ","I","s"," ","H","e","r","e">>

T_join == <<"J","o","i","n"," ","t","h","o","u","s","a","n","d","s"," ","a","l","r","e","a","d","y"," ","u","s","i","n","g"," ","i","t",".">>

T_get == <<"G","e","t"," ","S","t","a","r","t","e","d"," ","T","o","d","a","y">>

T_new == <<"N","E","W">>

T_big == <<"B","i","g"," ","S","u","m","m","e","r"," ","S","a","v","i","n","g","s">>

T_great == <<"O","u","r"," ","p","r","o","d","u","c","t"," ","i","s"," ","g","r","e","a","t",".">>

T_abcd == <<"A"," ","B"," ","C"," ","D">>

T_hash == <<"#","p","r","o","m","o">>

T_date == <<"1","2","/","2","5">>

\* n words "zz", each followed by one blank, and a full stop: the stop
\* stands alone and counts as a word of its own, n + 1 words in all
RECURSIVE Words(_)
Words(n) == IF n = 0 THEN <<".">> ELSE <<"z", "z", " ">> \o Words(n - 1)

T_words16 == Words(16)

T_words31 == Words(31)

\* 15 words: the longest text that qualifies for promotion
T_words15 == Words(14)

TextLib ==
    { T_launch, T_join, T_get, T_new, T_big, T_great, T_abcd, T_hash, T_date,
      T_words16, T_words31, T_words15, <<>> }

\* texts that are also supplied with an explicit type
TypedTexts == { T_big, T_words16 }

InputLib ==
    {[text |-> t, type |-> NoType] : t \in TextLib}
        \cup {[text |-> t, type |-> r] : t \in TypedTexts, r \in Roles}

\* The body of the input loop of analyze (lines 42-56), once per input of the
\* library: the object pushed for it
pushed ==
    [input \in InputLib |->
        IF input.type # NoType
        THEN explicitResult(input)
        ELSE detectType(input.text)]

\* The objects of the result array are the objects pushed in the input loop;
\* `src` is the position of the input an object was pushed for (its
\* identity), which the sort does not change.
analyze(ins) ==
    ensureHierarchy([i \in 1..Len(ins) |-> pushed[ins[i]] @@ [src |-> i]])

RECURSIVE SeqsUpTo(_, _)
SeqsUpTo(S, n) ==
    IF n = 0 THEN {<<>>}
    ELSE LET shorter == SeqsUpTo(S, n - 1)
         IN  shorter \cup {Append(q, x) : q \in shorter, x \in S}

\* the words the phrases handed to detectType are made of: status words in
\* upper and lower case, a one-letter word, a word of 13 letters, a word
\* without a cue, a hashtag, a date and an action word
W_NEW == <<"N","E","W">>

W_hot == <<"h","o","t">>

W_A == <<"A">>

W_INTERNATIONAL == <<"I","N","T","E","R","N","A","T","I","O","N","A","L">>

W_fresh == <<"f","r","e","s","h">>

W_buy == <<"B","U","Y">>

WordLib == { W_NEW, W_hot, W_A, W_INTERNATIONAL, W_fresh, T_hash, T_date, W_buy }

\* the phrases of 1 to n words, the words separated by one blank
RECURSIVE PhrasesUpTo(_)
PhrasesUpTo(n) ==
    IF n = 1 THEN WordLib
    ELSE LET shorter == PhrasesUpTo(n - 1)
         IN  shorter \cup {p \o <<" ">> \o w : p \in shorter, w \in WordLib}

\* phrases as typed, and with blanks around them
Phrases ==
    PhrasesUpTo(MaxWords)
        \cup {<<" ">> \o w \o <<" ", " ">> : w \in WordLib} \cup {<<>>, <<" ">>}

NoDetection ==
    [ text |-> <<>>, type |-> NoType, wordCount |-> 0, charCount |-> 0,
      hasAction |-> FALSE, isPunctated |-> FALSE, confidence |-> 0 ]

\* the batch of the end-to-end example
LaunchBatch ==
    << [text |-> T_launch, type |-> NoType], [text |-> T_join, type |-> NoType],
       [text |-> T_get, type |-> NoType], [text |-> T_new, type |-> NoType] >>

Batches == SeqsUpTo(InputLib, MaxBatch) \cup {LaunchBatch}

(***************************************************************************)
(* Documents the tree specifications start from                            *)
(***************************************************************************)
N_MainHeadline == <<"M","a","i","n"," ","H","e","a","d","l","i","n","e">>

N_Subheadline == <<"S","u","b","h","e","a","d","l","i","n","e">>

N_Subtitle == <<"S","u","b","t","i","t","l","e">>

N_BodyCopy == <<"B","o","d","y"," ","C","o","p","y">>

N_Description == <<"D","e","s","c","r","i","p","t","i","o","n">>

N_CTAButton == <<"C","T","A"," ","B","u","t","t","o","n">>

N_Tagline == <<"T","a","g","l","i","n","e">>

N_Label == <<"L","a","b","e","l">>

N_Content == <<"C","o","n","t","e","n","t">>

N_TextGroup == <<"T","e","x","t"," ","G","r","o","u","p">>

N_Brand == <<"B","r","a","n","d">>

N_Logo == <<"L","o","g","o">>

N_LogoGlow == <<"L","o","g","o"," ","G","l","o","w">>

N_Decor == <<"D","e","c","o","r">>

N_Effects == <<"E","f","f","e","c","t","s">>

N_Background == <<"B","a","c","k","g","r","o","u","n","d">>

N_BG == <<"B","G">>

N_Glow == <<"G","l","o","w">>

N_Blur == <<"B","l","u","r">>

N_Shape == <<"S","h","a","p","e">>

RawNames ==
    { N_MainHeadline, N_Subheadline, N_Subtitle, N_BodyCopy, N_Description,
      N_CTAButton, N_Tagline, N_Label, N_Content, N_TextGroup, N_Brand, N_Logo,
      N_LogoGlow, N_Decor, N_Effects, N_Background, N_BG, N_Glow, N_Blur,
      N_Shape }

CanonicalNames ==
    { LAYER_NAMES.content, LAYER_NAMES.headline, LAYER_NAMES.subhead,
      LAYER_NAMES.body, LAYER_NAMES.cta, LAYER_NAMES.tag, LAYER_NAMES.branding,
      LAYER_NAMES.logo, LAYER_NAMES.tagline, LAYER_NAMES.decorative,
      LAYER_NAMES.glow, LAYER_NAMES.background }

NameLib == RawNames \cup CanonicalNames

\* a paint no theme produces
OriginalFill == << [ type |-> "SOLID", color |-> [ r |-> 200, g |-> 30, b |-> 30 ] ] >>

Node(type, name) ==
    [ type |-> type, name |-> name, children |-> <<>>, fills |-> OriginalFill,
      visible |-> TRUE, fontName |-> "Inter" ]

TextNode(name, family) == [Node("TEXT", name) EXCEPT !.fontName = family]

Hidden(node) == [node EXCEPT !.visible = FALSE]

RootFrame == Node("FRAME", LAYER_NAMES.root)

\* a subtree is a document of its own: the sequence of its nodes, the first
\* one its top node
One(node) == <<node>>

Under(parent, kids) ==
    <<[parent EXCEPT !.children = [i \in 1..Len(kids) |-> i + 1]]>> \o kids

Shift(sub, off) ==
    [i \in 1..Len(sub) |->
        [sub[i] EXCEPT !.children = [j \in 1..Len(sub[i].children) |->
                                        sub[i].children[j] + off]]]

\* the root with the subtrees subs[i..] appended as further children
RECURSIVE Graft(_, _, _)
Graft(t, subs, i) ==
    IF i > Len(subs) THEN t
    ELSE Graft([t EXCEPT ![Root].children = Append(@, Len(t) + 1)]
                   \o Shift(subs[i], Len(t)),
               subs, i + 1)

BuildTree(rootNode, subs) == Graft(<<rootNode>>, subs, 1)

\* children of the root for the reordering of applyNaming
LayerTop ==
    { One(Node("FRAME", LAYER_NAMES.background)),
      One(Node("FRAME", N_BG)),
      One(Node("GROUP", LAYER_NAMES.decorative)),
      One(Node("FRAME", N_Brand)),
      One(Node("FRAME", LAYER_NAMES.content)),
      Under(Node("GROUP", N_TextGroup), <<TextNode(N_CTAButton, "Inter")>>),
      One(TextNode(N_MainHeadline, "Inter")),
      One(Node("RECTANGLE", N_Shape)) }

\* every node type with every name, directly under the root and one level
\* further down
LayerDeep ==
    {One(Node(k, n)) : k \in NodeKinds, n \in NameLib}
        \cup {Under(Node(c, N_Shape), <<Node(k, n)>>) :
                 c \in ContainerKinds, k \in NodeKinds, n \in NameLib}

LayerTrees ==
    {BuildTree(RootFrame, subs) : subs \in SeqsUpTo(LayerTop, MaxChildren)}
        \cup {BuildTree(RootFrame, <<s>>) : s \in LayerDeep}

ThemeTop ==
    { One(TextNode(LAYER_NAMES.headline, "Inter")),
      One(TextNode(LAYER_NAMES.cta, "Inter")),
      One(Node("RECTANGLE", LAYER_NAMES.cta)),
      Under(Node("FRAME", LAYER_NAMES.content),
            <<TextNode(LAYER_NAMES.body, "Inter"), TextNode(LAYER_NAMES.cta, "Inter")>>),
      Under(Node("FRAME", LAYER_NAMES.decorative),
            <<Hidden(Node("ELLIPSE", LAYER_NAMES.glow))>>),
      Under(Node("GROUP", LAYER_NAMES.decorative),
            <<Node("ELLIPSE", LAYER_NAMES.glow)>>),
      One(Node("ELLIPSE", LAYER_NAMES.glow)) }

ThemeTrees == {BuildTree(RootFrame, subs) : subs \in SeqsUpTo(ThemeTop, MaxSubtrees)}

AuditTop ==
    { Under(Node("FRAME", LAYER_NAMES.content),
            <<TextNode(LAYER_NAMES.headline, "Inter")>>),
      One(TextNode(LAYER_NAMES.body, "Roboto")),
      One(TextNode(LAYER_NAMES.tag, Mixed)),
      One(TextNode(LAYER_NAMES.headline, "Brand Sans")),
      Under(Node("FRAME", LAYER_NAMES.branding),
            <<Node("RECTANGLE", LAYER_NAMES.logo)>>),
      One(Node("FRAME", LAYER_NAMES.decorative)) }

AuditTrees == {BuildTree(RootFrame, subs) : subs \in SeqsUpTo(AuditTop, MaxSubtrees)}

\* frame sizes <<width, height>> around the export minimum, and sizes of
\* ASSET_DIMENSIONS
FrameSizes ==
    { <<500, 150>>, <<599, 200>>, <<600, 199>>, <<600, 200>>, <<1200, 675>>,
      <<728, 90>>, <<160, 600>> }

Config(hasColors, colors, hasTypography, headline_font, body_font) ==
    [ null |-> FALSE, hasColors |-> hasColors, colors |-> colors,
      hasTypography |-> hasTypography,
      typography |-> [ headline_font |-> headline_font, body_font |-> body_font ] ]

\* a palette that overrides some keys only: a 6-digit value, a value
\* without the leading #, and a 3-digit value
PartialPalette ==
    [ primary |-> <<"#","F","F","0","0","0","0">>,
      accent |-> <<"0","0","f","f","0","0">>,
      text_light |-> <<"#","f","f","f">> ]

BrandConfigs ==
    { NoConfig,
      Config(TRUE, PartialPalette, TRUE, "Brand Sans", ""),
      Config(FALSE, DEFAULT_COLORS, FALSE, "", "") }

\* theme ids: the five themes, an id that is no property of THEMES at all,
\* and ids of members THEMES inherits
ThemeIds ==
    { "dark", "light", "bold", "minimal", "gradient", "neon", "constructor",
      "toString" }

\* children of the root for validate: the three canonical groups, a text
\* node named content, and canonical names one level further down only
ValidateTop ==
    { One(Node("FRAME", LAYER_NAMES.content)),
      One(Node("FRAME", LAYER_NAMES.branding)),
      One(Node("GROUP", LAYER_NAMES.decorative)),
      One(TextNode(LAYER_NAMES.content, "Inter")),
      Under(Node("FRAME", N_Shape), <<Node("FRAME", LAYER_NAMES.content)>>),
      Under(Node("GROUP", LAYER_NAMES.branding),
            <<Node("GROUP", LAYER_NAMES.decorative)>>),
      One(Node("RECTANGLE", N_Shape)) }

\* roots of every node type; the roots without children stand alone
ValidateTrees ==
    {BuildTree(Node(k, LAYER_NAMES.root), subs) :
        k \in ContainerKinds, subs \in SeqsUpTo(ValidateTop, MaxSubtrees)}
        \cup {<<Node(k, LAYER_NAMES.root)>> : k \in NodeKinds \ ContainerKinds}

\* color strings a palette may hold: 6 digits with and without #, in mixed
\* case, 3 digits, an rgb() string, the empty string, a non-hex digit, and
\* 7 digits
V_red == <<"#","F","F","0","0","0","0">>

V_green == <<"0","0","f","f","0","0">>

V_mixed == <<"#","A","b","C","d","E","f">>

V_short == <<"#","f","f","f">>

V_rgb == <<"r","g","b","(","2","5","5",","," ","0",","," ","0",")">>

V_empty == <<>>

V_nonhex == <<"#","1","2","3","4","5","G">>

V_long == <<"#","1","2","3","4","5","6","7">>

ColorValues ==
    { V_red, V_green, V_mixed, V_short, V_rgb, V_empty, V_nonhex, V_long }

\* partial palettes: one overrides primary and holds a key of its own, the
\* other overrides text_light only
Palettes ==
    {[ primary |-> v, custom |-> w ] : v, w \in ColorValues}
        \cup {[ text_light |-> v ] : v \in ColorValues}

ColorConfigs ==
    { NoConfig, Config(FALSE, DEFAULT_COLORS, FALSE, "", "") }
        \cup {Config(TRUE, p, FALSE, "", "") : p \in Palettes}

\* keys of the palettes, a key of no palette, the key the value undefined
\* is converted to, and a key of an inherited member
ColorKeys ==
    { "primary", "secondary", "accent", "background_dark", "text_light",
      "custom", "missing", "undefined", "constructor" }

NoColor == [ key |-> "", color |-> [ r |-> 0, g |-> 0, b |-> 0 ] ]

NoValidation ==
    [ valid |-> FALSE, errors |-> <<>>, warnings |-> <<>>, suggestions |-> <<>> ]

NoAudit ==
    [ nodeId |-> NoNode, nodeName |-> <<>>, passed |-> FALSE, score |-> 0,
      checks |-> <<>>, warnings |-> <<>> ]

(***************************************************************************)
(* Inputs of the config specification                                      *)
(***************************************************************************)
ParsedConfig(hasBrand, name, hasColors, colors, hasTypography, hasLogo) ==
    [ hasBrand |-> hasBrand, brand |-> [ name |-> name ],
      hasColors |-> hasColors, colors |-> colors,
      hasTypography |-> hasTypography, hasLogo |-> hasLogo ]

N_Acme == <<"A","c","m","e">>

\* no brand section, a brand section without name, with the empty name, and
\* with a name
BrandSections ==
    { <<FALSE, Undefined>>, <<TRUE, Undefined>>, <<TRUE, <<>> >>,
      <<TRUE, N_Acme>> }

V_rgba == <<"r","g","b","a","(","0",","," ","0",","," ","0",",","0",".","5",")">>

V_rgbSpaced == <<"r","g","b","("," ","1"," ",","," ","2"," ",","," ","3"," ",")">>

V_rgbOpen == <<"r","g","b","(","1",",","2",",","3">>

V_rgbTwo == <<"r","g","b","(","1",",","2",")">>

V_hsl == <<"h","s","l","(","1",",","2",",","3",")">>

V_named == <<"r","e","d">>

V_hex4 == <<"#","f","f","0","0">>

SchemaValues ==
    ColorValues \cup
        { V_rgba, V_rgbSpaced, V_rgbOpen, V_rgbTwo, V_hsl, V_named, V_hex4 }

\* the default palette with the values v and w for its first and its last
\* key; the value Undefined leaves the key out
SchemaPalette(v, w) ==
    LET full == [DEFAULT_COLORS EXCEPT !.primary = v, !.text_dark = w]
        held == {k \in DOMAIN full : full[k] # Undefined}
    IN  [k \in held |-> full[k]]

\* palettes that hold the seven keys or lack the first or the last, and the
\* palette without any key
SchemaPalettes ==
    {SchemaPalette(v, w) : v, w \in SchemaValues \cup {Undefined}}
        \cup { [k \in {} |-> <<>>] }

ParsedConfigs ==
    {ParsedConfig(b[1], b[2], TRUE, p, t, l) :
        b \in BrandSections, p \in SchemaPalettes, t \in BOOLEAN, l \in BOOLEAN}
    \cup {ParsedConfig(b[1], b[2], FALSE, [k \in {} |-> <<>>], t, l) :
        b \in BrandSections, t \in BOOLEAN, l \in BOOLEAN}

\* figma.root.getPluginData('brandConfig') when nothing was stored
NoSavedConfig == [ stored |-> FALSE ]

\* no handler is waiting at an await
NoPending == [ pc |-> "idle" ]

\* useState([{ id: '1', text: '', type: 'headline' }])
InitialTextBlocks == << [ id |-> "1", text |-> <<>>, type |-> "headline" ] >>

NoParsedConfig == ParsedConfig(FALSE, Undefined, FALSE, [k \in {} |-> <<>>], FALSE, FALSE)

\* no result: validate returns valid = false with an error only
NoConfigValidation == [ valid |-> FALSE, errors |-> <<>>, warnings |-> <<>> ]

(***************************************************************************)
(* Inputs of the feedback specification                                    *)
(***************************************************************************)
Issue(category, description) ==
    [ category |-> category, severity |-> "minor", description |-> description ]

\* what a reviewer reports: rating, outcome and issues
Reviews ==
    { [ overall |-> 5, outcome |-> "approved", issues |-> <<>> ],
      [ overall |-> 2, outcome |-> "revised",
        issues |-> <<Issue("color", "off-brand")>> ],
      [ overall |-> 4, outcome |-> "rejected",
        issues |-> <<Issue("layout", "cramped"), Issue("color", "off-brand")>> ],
      [ overall |-> 3, outcome |-> "approved",
        issues |-> <<Issue("layout", "cramped")>> ] }

\* the timestamps of submitted entries: any day up to the day after the
\* last day the clock reaches
EntryDays == 0..(MaxClock + 1)

FeedbackEntries ==
    { [ assetId |-> "1:2", timestamp |-> d, reviewer |-> "Anonymous",
        ratings |-> [ overall |-> r.overall ], issues |-> r.issues,
        outcome |-> r.outcome ] : d \in EntryDays, r \in Reviews }

\* the days arguments of getSummary
WindowDays == {1, 2}

NoSummary ==
    [ totalAssets |-> 0, approvedFirstTry |-> 0, neededRevision |-> 0,
      rejected |-> 0, averageRating |-> 0, commonIssues |-> <<>>,
      periodStart |-> 0, periodEnd |-> 0 ]

(***************************************************************************)
(* defaults.ts: ASSET_DIMENSIONS                                           *)
(***************************************************************************)
ASSET_DIMENSIONS ==
    "twitter-post" :> [ width |-> 1200, height |-> 675,
        name |-> <<"T","w","i","t","t","e","r","/","X"," ","P","o","s","t">> ] @@
    "twitter-card" :> [ width |-> 1080, height |-> 1080,
        name |-> <<"T","w","i","t","t","e","r","/","X"," ","C","a","r","d">> ] @@
    "linkedin-post" :> [ width |-> 1200, height |-> 627,
        name |-> <<"L","i","n","k","e","d","I","n"," ","P","o","s","t">> ] @@
    "instagram-square" :> [ width |-> 1080, height |-> 1080,
        name |-> <<"I","n","s","t","a","g","r","a","m"," ","S","q","u","a","r","e">> ] @@
    "instagram-story" :> [ width |-> 1080, height |-> 1920,
        name |-> <<"I","n","s","t","a","g","r","a","m"," ","S","t","o","r","y">> ] @@
    "instagram-reel" :> [ width |-> 1080, height |-> 1920,
        name |-> <<"I","n","s","t","a","g","r","a","m"," ","R","e","e","l"," ","C","o","v","e","r">> ] @@
    "facebook-post" :> [ width |-> 1200, height |-> 630,
        name |-> <<"F","a","c","e","b","o","o","k"," ","P","o","s","t">> ] @@
    "youtube-thumbnail" :> [ width |-> 1280, height |-> 720,
        name |-> <<"Y","o","u","T","u","b","e"," ","T","h","u","m","b","n","a","i","l">> ] @@
    "teaser-card" :> [ width |-> 1200, height |-> 675,
        name |-> <<"T","e","a","s","e","r"," ","C","a","r","d">> ] @@
    "announcement-hero" :> [ width |-> 1200, height |-> 675,
        name |-> <<"A","n","n","o","u","n","c","e","m","e","n","t"," ","H","e","r","o">> ] @@
    "feature-highlight" :> [ width |-> 1080, height |-> 1080,
        name |-> <<"F","e","a","t","u","r","e"," ","H","i","g","h","l","i","g","h","t">> ] @@
    "countdown-card" :> [ width |-> 1080, height |-> 1080,
        name |-> <<"C","o","u","n","t","d","o","w","n"," ","C","a","r","d">> ] @@
    "email-header" :> [ width |-> 600, height |-> 200,
        name |-> <<"E","m","a","i","l"," ","H","e","a","d","e","r">> ] @@
    "email-banner" :> [ width |-> 600, height |-> 300,
        name |-> <<"E","m","a","i","l"," ","B","a","n","n","e","r">> ] @@
    "blog-featured" :> [ width |-> 1200, height |-> 630,
        name |-> <<"B","l","o","g"," ","F","e","a","t","u","r","e","d"," ","I","m","a","g","e">> ] @@
    "blog-inline" :> [ width |-> 800, height |-> 450,
        name |-> <<"B","l","o","g"," ","I","n","l","i","n","e"," ","I","m","a","g","e">> ] @@
    "presentation-slide" :> [ width |-> 1920, height |-> 1080,
        name |-> <<"P","r","e","s","e","n","t","a","t","i","o","n"," ","S","l","i","d","e">> ] @@
    "banner-leaderboard" :> [ width |-> 728, height |-> 90,
        name |-> <<"L","e","a","d","e","r","b","o","a","r","d"," ","B","a","n","n","e","r">> ] @@
    "banner-rectangle" :> [ width |-> 336, height |-> 280,
        name |-> <<"R","e","c","t","a","n","g","l","e"," ","B","a","n","n","e","r">> ] @@
    "banner-skyscraper" :> [ width |-> 160, height |-> 600,
        name |-> <<"S","k","y","s","c","r","a","p","e","r"," ","B","a","n","n","e","r">> ]

\* ASSET_DIMENSIONS[assetType] is truthy: an own entry or an inherited member
hasDimensions(assetType) ==
    assetType \in (DOMAIN ASSET_DIMENSIONS) \cup ObjectPrototypeMembers

(***************************************************************************)
(* asset-engine.ts.  The engine builds the document of one asset.  Of a    *)
(* node the model keeps type, name, children, fills, visibility and font   *)
(* family; sizes and positions other than the root's width and height,     *)
(* the characters, the opacity and the layout fields are left out.         *)
(***************************************************************************)
\* the theme of a request that names none (undefined; the empty string is
\* falsy and takes the same branches)
NoTheme == ""

RECURSIVE hexValue(_)
hexValue(digits) ==
    IF digits = <<>> THEN 0
    ELSE 16 * hexValue(SubSeq(digits, 1, Len(digits) - 1))
             + HexDigitValue[LowerChar(digits[Len(digits)])]

\* parseInt(str, 16): blanks, a sign and a 0x prefix are skipped and the
\* longest run of hex digits that follows is read; NaN when there is none
parseInt16(str) ==
    LET a == skip(str, 1, WhiteSpace)
        b == IF charAt(str, a) \in {"+", "-"} THEN a + 1 ELSE a
        c == IF charAt(str, b) = "0" /\ charAt(str, b + 1) \in {"x", "X"}
             THEN b + 2 ELSE b
        e == skip(str, c, HexDigits)
        magnitude == hexValue(SubSeq(str, c, e - 1))
    IN  [ nan |-> (e = c),
          value |-> IF charAt(str, a) = "-" THEN 0 - magnitude ELSE magnitude ]

\* AssetEngine.hexToRgb: the first # is removed and each pair of characters
\* is parsed on its own, NaN giving 0
AssetEngine_hexToRgb(hex) ==
    LET marks == {i \in 1..Len(hex) : hex[i] = "#"}
        cleanHex ==
            IF marks = {} THEN hex
            ELSE LET i == CHOOSE m \in marks : \A k \in marks : m <= k
                 IN  SubSeq(hex, 1, i - 1) \o SubSeq(hex, i + 1, Len(hex))
        channel(from) ==
            LET parsed == parseInt16(SubSeq(cleanHex, from,
                                            Min(from + 1, Len(cleanHex))))
            IN  IF parsed.nan THEN 0 ELSE parsed.value
    IN  [ r |-> channel(1), g |-> channel(3), b |-> channel(5) ]

getThemeColors(cfg, theme) ==
    LET brandColors ==
            IF ~cfg.null /\ cfg.hasColors THEN cfg.colors ELSE [k \in {} |-> <<>>]
        orDefault(key) ==
            IF Truthy(PropertyValue(brandColors, key))
            THEN PropertyValue(brandColors, key) ELSE DEFAULT_COLORS[key]
        colors ==
            [ primary |-> orDefault("primary"),
              secondary |-> orDefault("secondary"),
              accent |-> orDefault("accent"),
              background |-> DEFAULT_COLORS.background_dark,
              text |-> DEFAULT_COLORS.text_light ]
    IN  IF theme \in {"light", "minimal"}
            THEN [colors EXCEPT !.background = orDefault("background_light"),
                                !.text = orDefault("text_dark")]
        ELSE IF theme = "bold"
            THEN [colors EXCEPT !.background = orDefault("primary"),
                                !.text = DEFAULT_COLORS.text_light]
        ELSE [colors EXCEPT !.background = orDefault("background_dark"),
                            !.text = orDefault("text_light")]

\* a node as figma.createFrame, createText and createEllipse return it,
\* with the name given to it
created(type, name) ==
    [ type |-> type, name |-> name, children |-> <<>>, fills |-> <<>>,
      visible |-> TRUE, fontName |-> "Inter" ]

createFrame(dimensions, assetType) ==
    [created("FRAME", LAYER_NAMES.root) EXCEPT
        !.name = IF assetType \in DOMAIN ASSET_DIMENSIONS
                 THEN ASSET_DIMENSIONS[assetType].name ELSE LAYER_NAMES.root]

\* the fills createBackground assigns to the frame
createBackground(cfg, theme) ==
    LET colors == getThemeColors(cfg, theme)
    IN  IF theme = "gradient"
        THEN << [ type |-> "GRADIENT_LINEAR",
                  gradientStops |->
                      << [ position |-> 0,
                           color |-> AssetEngine_hexToRgb(colors.primary),
                           a |-> 1 ],
                         [ position |-> 1,
                           color |-> AssetEngine_hexToRgb(colors.secondary),
                           a |-> 1 ] >> ] >>
        ELSE solidFill(AssetEngine_hexToRgb(colors.background))

\* the glow ellipse; stop positions and alphas in tenths
createGlowEffect(cfg) ==
    LET primary ==
            IF ~cfg.null /\ cfg.hasColors
                   /\ Truthy(PropertyValue(cfg.colors, "primary"))
            THEN PropertyValue(cfg.colors, "primary") ELSE DEFAULT_COLORS.primary
        primaryColor == AssetEngine_hexToRgb(primary)
    IN  [created("ELLIPSE", LAYER_NAMES.glow) EXCEPT
            !.fills = << [ type |-> "GRADIENT_RADIAL",
                           gradientStops |->
                               << [ position |-> 0, color |-> primaryColor, a |-> 4 ],
                                  [ position |-> 5, color |-> primaryColor, a |-> 1 ],
                                  [ position |-> 10, color |-> primaryColor, a |-> 0 ] >> ] >>]

\* the decorative group as a subtree
createDecorativeGroup(cfg, theme) ==
    Under(created("FRAME", LAYER_NAMES.decorative),
          IF theme \in {"dark", "gradient"} THEN <<createGlowEffect(cfg)>> ELSE <<>>)

createTextNode(item, colors) ==
    [created("TEXT", LAYER_NAMES[item.type]) EXCEPT
        !.fills = solidFill(IF item.type = "cta"
                            THEN AssetEngine_hexToRgb(colors.accent)
                            ELSE AssetEngine_hexToRgb(colors.text))]

\* the content group as a subtree: one text node per item, in order
createContentGroup(content, cfg, theme) ==
    Under(created("FRAME", LAYER_NAMES.content),
          [i \in 1..Len(content) |->
              createTextNode(content[i], getThemeColors(cfg, theme))])

\* the characters of the logo placeholder, which name its text node
BrandCharacters(cfg) ==
    IF ~cfg.null /\ "brand" \in DOMAIN cfg /\ Truthy(cfg.brand.name)
    THEN cfg.brand.name ELSE <<"B","R","A","N","D">>

\* the logo frame with its text as a subtree
createLogoPlaceholder(cfg) ==
    LET textLight ==
            IF ~cfg.null /\ cfg.hasColors
                   /\ Truthy(PropertyValue(cfg.colors, "text_light"))
            THEN PropertyValue(cfg.colors, "text_light")
            ELSE DEFAULT_COLORS.text_light
    IN  Under(created("FRAME", LAYER_NAMES.logo),
              << [created("TEXT", BrandCharacters(cfg)) EXCEPT
                     !.fills = solidFill(AssetEngine_hexToRgb(textLight))] >>)

\* the branding group as a subtree
createBrandingGroup(cfg) ==
    BuildTree(created("FRAME", LAYER_NAMES.branding), <<createLogoPlaceholder(cfg)>>)

\* AssetEngine.generate: the frame with the decorative, content and
\* branding groups appended in this order
generate(type, content, dimensions, theme, cfg) ==
    BuildTree([createFrame(dimensions, type) EXCEPT
                  !.fills = createBackground(cfg, theme)],
              << createDecorativeGroup(cfg, theme),
                 createContentGroup(content, cfg, theme),
                 createBrandingGroup(cfg) >>)

(***************************************************************************)
(* The plugin's message handling (main plugin code)                        *)
(***************************************************************************)
\* the message of an error a call of the host raises (a font that cannot
\* be loaded)
HostError == "(host error)"

\* the catch of figma.ui.onmessage that drops the error
catchError_swallowed(ui, text) == ui

\* the catch of figma.ui.onmessage: the error is posted to the UI
catchError(ui, text) ==
    Append(ui, [ type |-> "error", payload |-> [ message |-> text ] ])

\* handleGenerateAsset up to its postMessage: what it throws, or the
\* document and the audit result it leaves.  fontsAvailable tells whether
\* figma.loadFontAsync resolves; when it rejects, loadFonts logs the error
\* and the next load, for a text node or the logo, leaves generate.
\* Each step of the pipeline is bound to its value before the next step
\* reads it.
handleGenerateAsset(payload, cfg, fontsAvailable) ==
    IF ~hasDimensions(payload.assetType)
        THEN [ threw |-> TRUE,
               message |-> "Unknown asset type: " \o payload.assetType ]
    ELSE IF ~fontsAvailable
        THEN [ threw |-> TRUE, message |-> HostError ]
    ELSE LET dimensions == ASSET_DIMENSIONS[payload.assetType]
         IN  CHOOSE outcome \in
                 {[ threw |-> FALSE, node |-> themed, dimensions |-> dimensions,
                    auditResult |->
                        audit(themed, dimensions.width, dimensions.height, cfg) ] :
                     themed \in
                       {IF payload.theme # NoTheme
                        THEN apply(named, cfg, payload.theme) ELSE named :
                           named \in
                             {applyNaming(asset) :
                                 asset \in
                                   {generate(payload.assetType, analyzedContent,
                                             dimensions, payload.theme, cfg) :
                                       analyzedContent \in
                                         {analyze(payload.content)}}}}} : TRUE

\* the object the engines keep after setBrandConfig(config): the sections of
\* the parsed object they read.  The typography section of the parsed
\* objects names no font.
setBrandConfig(parsed) ==
    [ null |-> FALSE, brand |-> parsed.brand,
      hasColors |-> parsed.hasColors, colors |-> parsed.colors,
      hasTypography |-> parsed.hasTypography,
      typography |-> [ headline_font |-> "", body_font |-> "" ] ]

RECURSIVE join(_, _)
\* errors.join(separator)
join(errors, separator) ==
    IF Len(errors) = 0 THEN ""
    ELSE IF Len(errors) = 1 THEN errors[1]
    ELSE errors[1] \o separator \o join(Tail(errors), separator)

\* handleLoadBrandConfig for the object configLoader.parse returned: what
\* it throws, or the configuration it stores and hands to the engines
handleLoadBrandConfig(parsed) ==
    LET validation == validateConfig(parsed)
    IN  IF ~validation.valid
        THEN [ threw |-> TRUE,
               message |-> "Invalid config: " \o join(validation.errors, ", "),
               validation |-> validation ]
        ELSE [ threw |-> FALSE, config |-> parsed, validation |-> validation ]

\* the calls handleGenerateAsset makes after generate has returned, with the
\* theme applied whether one was given or not
pipeline_alwaysThemed(theme) == << "applyNaming", "apply", "audit", "postMessage" >>

\* the calls handleGenerateAsset makes after generate has returned
pipeline(theme) ==
    << "applyNaming" >>
        \o (IF theme # NoTheme THEN << "apply" >> ELSE <<>>)
        \o << "audit", "postMessage" >>

\* the calls handleGenerateAsset has made when it ends with the outcome
callsOf(payload, outcome) ==
    IF ~hasDimensions(payload.assetType) THEN << "analyze" >>
    ELSE IF outcome.threw THEN << "analyze", "generate" >>
    ELSE << "analyze", "generate" >> \o pipeline(payload.theme)

\* the part of the asset AssetEngine.generate builds before the first text
\* node is awaited: the frame with its background, the decorative group and
\* the colors of the content group, all read from the brandConfig of then
generateEarly(type, content, dimensions, theme, cfg) ==
    [ frame |-> [createFrame(dimensions, type) EXCEPT
                    !.fills = createBackground(cfg, theme)],
      decorative |-> createDecorativeGroup(cfg, theme),
      contentGroup |-> createContentGroup(content, cfg, theme) ]

\* the asset AssetEngine.generate returns once the font of the logo
\* placeholder was awaited: the placeholder reads the brandConfig of now
generateLate(early, cfg) ==
    BuildTree(early.frame,
              << early.decorative, early.contentGroup, createBrandingGroup(cfg) >>)

\* handleGenerateAsset from the return of generate on, with the brandConfig
\* the theme and audit engines hold then
finishGenerateAsset(asset, payload, dimensions, cfg) ==
    CHOOSE outcome \in
        {[ node |-> themed, dimensions |-> dimensions,
           auditResult |-> audit(themed, dimensions.width, dimensions.height, cfg) ] :
            themed \in
                {IF payload.theme # NoTheme THEN apply(named, cfg, payload.theme)
                 ELSE named : named \in {applyNaming(asset)}}} : TRUE

(***************************************************************************)
(* The UI (App component)                                                  *)
(***************************************************************************)
\* addTextBlock: the new id is String(textBlocks.length + 1)
addTextBlock(blocks) ==
    Append(blocks, [ id |-> ToString(Len(blocks) + 1), text |-> <<>>, type |-> "auto" ])

\* updateTextBlock: { ...block, ...updates } for every block with the id
updateTextBlock(blocks, id, updates) ==
    [i \in 1..Len(blocks) |->
        IF blocks[i].id = id THEN updates @@ blocks[i] ELSE blocks[i]]

\* removeTextBlock
removeTextBlock(blocks, id) ==
    IF Len(blocks) > 1 THEN SelectSeq(blocks, LAMBDA block : block.id # id)
    ELSE blocks

\* the updater handed to setSelectedAssetTypes by toggleAssetType
toggleAssetType(prev, assetId) ==
    IF \E i \in 1..Len(prev) : prev[i] = assetId
    THEN SelectSeq(prev, LAMBDA id : id # assetId)
    ELSE Append(prev, assetId)

\* textBlocks.every(block => !block.text.trim())
everyBlockBlank(blocks) == \A i \in 1..Len(blocks) : trim(blocks[i].text) = <<>>

\* the message handleGenerate posts to the plugin
generateMessage(blocks, selected, theme) ==
    LET filled == SelectSeq(blocks, LAMBDA block : trim(block.text) # <<>>)
        content ==
            [i \in 1..Len(filled) |->
                [ text |-> filled[i].text,
                  type |-> IF filled[i].type = "auto" THEN NoType ELSE filled[i].type ]]
    IN  [ type |-> IF Len(selected) = 1 THEN "generate-asset" ELSE "batch-generate",
          payload |-> [ assetType |-> selected[1], assetTypes |-> selected,
                        content |-> content, theme |-> theme ] ]

\* handleMessage: the loading state after a message of the plugin
handleMessage(msg, wasLoading) ==
    IF msg.type \in {"asset-generated", "batch-complete", "error"} THEN FALSE
    ELSE wasLoading

(***************************************************************************)
(* Inputs of the plugin specification                                      *)
(***************************************************************************)
\* asset types: two of the registry, a name that is no property of it, and
\* the empty name.  Names of members the registry inherits pass the test
\* of handleGenerateAsset and reach frame.resize without numbers, where the
\* host decides; they are not among the inputs.
AssetTypes == { "twitter-post", "banner-leaderboard", "neon-sign", "" }

Contents == { <<>>, LaunchBatch }

RequestThemes == { NoTheme, "dark", "light", "gradient" }

GeneratePayloads ==
    [ assetType : AssetTypes, content : Contents, theme : RequestThemes ]

NoMessage ==
    [ type |-> "none",
      payload |-> [ assetType |-> "", content |-> <<>>, theme |-> NoTheme ] ]

(***************************************************************************)
(* Inputs of the configuration messages                                    *)
(***************************************************************************)
N_Zeta == <<"Z","e","t","a">>

\* values of colors.primary: of six digits, of three digits, rgb(), rgba(),
\* without the #, a color name, and none
LoadValues == { V_red, V_short, V_rgb, V_rgba, V_green, V_named, Undefined }

\* parsed configurations with every section, which differ in brand.name and
\* in colors.primary
LoadableConfigs ==
    {ParsedConfig(TRUE, n, TRUE, SchemaPalette(v, DEFAULT_COLORS.text_dark), TRUE, TRUE) :
        n \in {N_Acme, <<>>}, v \in LoadValues}

(***************************************************************************)
(* Inputs of the storage specification                                     *)
(***************************************************************************)
\* payloads of submit-feedback: one for each review
FeedbackPayloads ==
    { [ assetId |-> "1:2", rating |-> r.overall, issues |-> r.issues,
        outcome |-> r.outcome ] : r \in Reviews }

\* a log of n entries as earlier runs of the plugin left it: days and
\* ratings vary with the position
StoredLog(n) ==
    [i \in 1..n |->
        [ assetId |-> "1:2", timestamp |-> i % 12, reviewer |-> "Anonymous",
          ratings |-> [ overall |-> 1 + (i % 5) ], issues |-> <<>>,
          outcome |-> "approved" ]]

\* the lengths of the logs stored by earlier runs: short, and at the cap
StoredLengths == { 2, RetentionCap - 1, RetentionCap }

(***************************************************************************)
(* Inputs of the UI specifications                                         *)
(***************************************************************************)
\* what the user changes in a block: its text, to a text or to a blank, or
\* its type
BlockUpdates ==
    { [ text |-> T_big ], [ text |-> <<" ">> ], [ type |-> "cta" ] }

\* the ids addTextBlock can give
BlockIds == {ToString(n) : n \in 1..MaxBlocks}

\* the asset types the user toggles
OfferedTypes == { "twitter-post", "linkedin-post" }

\* the theme that is selected when Generate is clicked: useState('dark')
SelectedThemes == { "dark" }

(***************************************************************************)
(* Inputs of the specification with suspended handlers                     *)
(***************************************************************************)
\* requests for an asset type of the registry and for an unknown one, with
\* and without texts, without theme and with a theme that draws the glow
AsyncPayloads ==
    [ assetType : {"twitter-post", "neon-sign"}, content : Contents,
      theme : {NoTheme, "gradient"} ]

\* the configurations the engines can hold: none, or a loaded one
UsableConfigs ==
    {NoConfig} \cup
        {setBrandConfig(parsed) : parsed \in {c \in LoadableConfigs : validateConfig(c).valid}}

(***************************************************************************)
(* Specifications                                                          *)
(***************************************************************************)
TextIdle ==
    /\ inputs = <<>>
    /\ results = <<>>
    /\ analyzed = FALSE
    /\ detected = NoDetection

Fresh ==
    /\ before = tree
    /\ op = "none"
    /\ opCount = 0
    /\ themeName = ""
    /\ auditResult = NoAudit

TreeIdle ==
    /\ tree = <<RootFrame>>
    /\ width = 0
    /\ height = 0
    /\ brandConfig = NoConfig
    /\ Fresh

\* nothing returned yet
NoReturns == validationResult = NoValidation /\ resolved = NoColor

\* a FeedbackSystem constructed with nothing stored
FeedbackIdle ==
    /\ feedbackLog = <<>>
    /\ storage = NoData
    /\ now = 0
    /\ called = "none"
    /\ summary = NoSummary

\* a BrandConfigLoader that has validated nothing
LoaderIdle == config = NoParsedConfig /\ configValidation = NoConfigValidation

\* no handler is suspended and no brand configuration was stored
HandlerIdle ==
    /\ savedConfig = NoSavedConfig
    /\ pending = NoPending
    /\ trace = <<>>

\* the App component after its first render: useState(...) of lines 45-48
UiIdle ==
    /\ textBlocks = InitialTextBlocks
    /\ selectedAssetTypes = <<>>
    /\ loading = FALSE
    /\ sent = <<>>
    /\ delivered = 0

\* the plugin after start: no message received, nothing posted or generated
PluginIdle ==
    /\ message = NoMessage
    /\ received = 0
    /\ posted = <<>>
    /\ page = 0
    /\ fontsLoaded = FALSE
    /\ HandlerIdle
    /\ UiIdle

IdleBesidesText == TreeIdle /\ FeedbackIdle /\ NoReturns /\ LoaderIdle /\ PluginIdle

IdleBesidesTree == TextIdle /\ FeedbackIdle /\ NoReturns /\ LoaderIdle /\ PluginIdle

\* Text specification: one call of TextAnalyzer.analyze on a batch
InitText ==
    /\ inputs \in Batches
    /\ results = <<>>
    /\ analyzed = FALSE
    /\ detected = NoDetection
    /\ IdleBesidesText

Analyze ==
    /\ ~analyzed
    /\ results' = analyze(inputs)
    /\ analyzed' = TRUE
    /\ UNCHANGED <<inputs, detected, besidesText>>

NextText == Analyze

SpecText == InitText /\ [][NextText]_vars

\* Detection specification: the per-item classification of one input
\* without a type (line 54 of analyze)
InitDetect ==
    /\ inputs \in {<<[text |-> p, type |-> NoType]>> : p \in Phrases}
    /\ results = <<>>
    /\ analyzed = FALSE
    /\ detected = NoDetection
    /\ IdleBesidesText

DetectType ==
    /\ detected = NoDetection
    /\ detected' = detectType(inputs[1].text)
    /\ UNCHANGED <<inputs, results, analyzed, besidesText>>

NextDetect == DetectType

SpecDetect == InitDetect /\ [][NextDetect]_vars

\* Layer specification: LayerManager.applyNaming, applied repeatedly
InitLayer ==
    /\ IdleBesidesTree
    /\ tree \in LayerTrees
    /\ width = 1200
    /\ height = 675
    /\ brandConfig = NoConfig
    /\ Fresh

ApplyNaming ==
    /\ opCount < MaxApplications
    /\ before' = tree
    /\ tree' = applyNaming(tree)
    /\ op' = "applyNaming"
    /\ opCount' = opCount + 1
    /\ UNCHANGED <<besidesTree, width, height, themeName, brandConfig, auditResult>>

NextLayer == ApplyNaming

SpecLayer == InitLayer /\ [][NextLayer]_vars

\* Validation specification: one call of LayerManager.validate on a node
InitValidate ==
    /\ IdleBesidesTree
    /\ tree \in ValidateTrees
    /\ width = 1200
    /\ height = 675
    /\ brandConfig = NoConfig
    /\ Fresh

Validate ==
    /\ op = "none"
    /\ before' = tree
    /\ validationResult' = validate(tree, Root)
    /\ op' = "validate"
    /\ opCount' = opCount + 1
    /\ UNCHANGED <<besidesDocument, tree, width, height, themeName,
                   brandConfig, auditResult, resolved>>

NextValidate == Validate

SpecValidate == InitValidate /\ [][NextValidate]_vars

\* Theme specification: one call of ThemeEngine.apply on a document
InitTheme ==
    /\ IdleBesidesTree
    /\ tree \in ThemeTrees
    /\ width = 1200
    /\ height = 675
    /\ brandConfig \in BrandConfigs
    /\ Fresh

Apply(name) ==
    /\ op = "none"
    /\ before' = tree
    /\ tree' = apply(tree, brandConfig, name)
    /\ op' = "apply"
    /\ opCount' = opCount + 1
    /\ themeName' = name
    /\ UNCHANGED <<besidesTree, width, height, brandConfig, auditResult>>

NextTheme == \E name \in ThemeIds : Apply(name)

SpecTheme == InitTheme /\ [][NextTheme]_vars

\* Color specification: one call of ThemeEngine.getColor with the engine's
\* brandConfig
InitColor ==
    /\ IdleBesidesTree
    /\ tree = <<RootFrame>>
    /\ width = 1200
    /\ height = 675
    /\ brandConfig \in ColorConfigs
    /\ Fresh

GetColor(key) ==
    /\ op = "none"
    /\ resolved' = [ key |-> key, color |-> getColor(brandConfig, key) ]
    /\ op' = "getColor"
    /\ opCount' = opCount + 1
    /\ UNCHANGED <<besidesDocument, tree, width, height, before,
                   themeName, brandConfig, auditResult, validationResult>>

NextColor == \E key \in ColorKeys : GetColor(key)

SpecColor == InitColor /\ [][NextColor]_vars

\* Audit specification: one call of AuditEngine.audit on a document
InitAudit ==
    /\ IdleBesidesTree
    /\ tree \in AuditTrees
    /\ \E size \in FrameSizes : width = size[1] /\ height = size[2]
    /\ brandConfig \in BrandConfigs
    /\ Fresh

Audit ==
    /\ op = "none"
    /\ before' = tree
    /\ auditResult' = audit(tree, width, height, brandConfig)
    /\ op' = "audit"
    /\ opCount' = opCount + 1
    /\ UNCHANGED <<besidesTree, tree, width, height, themeName, brandConfig>>

NextAudit == Audit

SpecAudit == InitAudit /\ [][NextAudit]_vars

\* Feedback specification: submit and getSummary of one FeedbackSystem while
\* the clock advances
InitFeedback ==
    /\ TextIdle
    /\ TreeIdle
    /\ FeedbackIdle
    /\ NoReturns
    /\ LoaderIdle
    /\ PluginIdle

Submit(entry) ==
    /\ Len(feedbackLog) < MaxLog
    /\ feedbackLog' = Append(feedbackLog, entry)
    /\ storage' = saveToStorage(feedbackLog')
    /\ called' = "submit"
    /\ UNCHANGED <<besidesFeedback, now, summary>>

GetSummary(days) ==
    /\ summary' = getSummary(feedbackLog, now, days)
    /\ called' = "getSummary"
    /\ UNCHANGED <<besidesFeedback, feedbackLog, storage, now>>

\* a day passes
Tick ==
    /\ now < MaxClock
    /\ now' = now + 1
    /\ UNCHANGED <<besidesFeedback, feedbackLog, storage, called, summary>>

NextFeedback ==
    \/ \E entry \in FeedbackEntries : Submit(entry)
    \/ \E days \in WindowDays : GetSummary(days)
    \/ Tick

SpecFeedback == InitFeedback /\ [][NextFeedback]_vars

\* Config specification: one call of BrandConfigLoader.validate on a
\* parsed config
InitConfig ==
    /\ TextIdle
    /\ TreeIdle
    /\ FeedbackIdle
    /\ NoReturns
    /\ PluginIdle
    /\ config \in ParsedConfigs
    /\ configValidation = NoConfigValidation

ValidateConfig ==
    /\ configValidation = NoConfigValidation
    /\ configValidation' = validateConfig(config)
    /\ UNCHANGED <<besidesLoader, config>>

NextConfig == ValidateConfig

SpecConfig == InitConfig /\ [][NextConfig]_vars

\* Plugin specification: generate-asset messages handled by
\* figma.ui.onmessage, one after the other
InitPlugin ==
    /\ TextIdle
    /\ TreeIdle
    /\ FeedbackIdle
    /\ NoReturns
    /\ LoaderIdle
    /\ PluginIdle

GenerateAsset(payload, fontsAvailable) ==
    /\ received < MaxMessages
    /\ message' = [ type |-> "generate-asset", payload |-> payload ]
    /\ received' = received + 1
    /\ inputs' = payload.content
    /\ results' = analyze(payload.content)
    /\ analyzed' = TRUE
    /\ fontsLoaded' = (fontsLoaded \/ (hasDimensions(payload.assetType) /\ fontsAvailable))
    /\ \E outcome \in {handleGenerateAsset(payload, brandConfig, fontsAvailable)} :
           /\ trace' = callsOf(payload, outcome)
           /\ IF outcome.threw
              THEN /\ posted' = catchError(posted, outcome.message)
                   /\ UNCHANGED <<tree, width, height, before, op, opCount,
                                  themeName, auditResult, page>>
              ELSE /\ tree' = outcome.node
                   /\ width' = outcome.dimensions.width
                   /\ height' = outcome.dimensions.height
                   /\ before' = tree
                   /\ op' = "generate"
                   /\ opCount' = opCount + 1
                   /\ themeName' = payload.theme
                   /\ auditResult' = outcome.auditResult
                   /\ page' = page + 1
                   /\ posted' =
                          Append(posted,
                                 [ type |-> "asset-generated",
                                   payload |-> [ name |-> outcome.node[Root].name,
                                                 dimensions |-> outcome.dimensions,
                                                 auditResult |-> outcome.auditResult ] ])
    /\ UNCHANGED <<detected, brandConfig, feedbackVars, returnVars, loaderVars,
                   savedConfig, pending, uiVars>>

NextPlugin ==
    \E payload \in GeneratePayloads, fontsAvailable \in BOOLEAN :
        GenerateAsset(payload, fontsAvailable)

SpecPlugin == InitPlugin /\ [][NextPlugin]_vars

\* load-brand-config handled by figma.ui.onmessage for the object parsed
\* from payload.configYaml
LoadBrandConfig(parsed) ==
    /\ received < MaxMessages
    /\ message' = [ type |-> "load-brand-config", payload |-> [ config |-> parsed ] ]
    /\ received' = received + 1
    /\ config' = parsed
    /\ \E outcome \in {handleLoadBrandConfig(parsed)} :
           /\ configValidation' = outcome.validation
           /\ IF outcome.threw
              THEN /\ posted' = catchError(posted, outcome.message)
                   /\ UNCHANGED <<brandConfig, savedConfig>>
              ELSE /\ savedConfig' = [ stored |-> TRUE, config |-> outcome.config ]
                   /\ brandConfig' = setBrandConfig(outcome.config)
                   /\ posted' =
                          Append(posted,
                                 [ type |-> "config-loaded",
                                   payload |-> [ config |-> outcome.config,
                                                 validation |-> outcome.validation ] ])
    /\ UNCHANGED <<textVars, tree, width, height, before, op, opCount, themeName,
                   auditResult, feedbackVars, returnVars, page, fontsLoaded,
                   pending, trace, uiVars>>

\* Load specification: configurations loaded by message, then a color
\* resolved by ThemeEngine
InitLoad ==
    /\ TextIdle
    /\ TreeIdle
    /\ FeedbackIdle
    /\ NoReturns
    /\ LoaderIdle
    /\ PluginIdle

NextLoad ==
    \/ \E parsed \in LoadableConfigs : LoadBrandConfig(parsed)
    \/ \E key \in ColorKeys : GetColor(key)

SpecLoad == InitLoad /\ [][NextLoad]_vars

\* submit-feedback handled by figma.ui.onmessage: handleSubmitFeedback
\* builds the entry with the clock's date and submits it
SubmitFeedback(payload) ==
    /\ received < MaxMessages
    /\ message' = [ type |-> "submit-feedback", payload |-> payload ]
    /\ received' = received + 1
    /\ feedbackLog' =
           Append(feedbackLog,
                  [ assetId |-> payload.assetId, timestamp |-> now,
                    reviewer |-> "Anonymous",
                    ratings |-> [ overall |-> payload.rating ],
                    issues |-> payload.issues, outcome |-> payload.outcome ])
    /\ storage' = saveToStorage(feedbackLog')
    /\ called' = "submit"
    /\ posted' = Append(posted, [ type |-> "feedback-submitted",
                                  payload |-> [ success |-> TRUE ] ])
    /\ UNCHANGED <<textVars, treeVars, returnVars, loaderVars, now, summary,
                   page, fontsLoaded, handlerVars, uiVars>>

\* Storage specification: the plugin starts on a document that holds the
\* log earlier runs stored, and handles submit-feedback messages
InitStorage ==
    /\ TextIdle
    /\ TreeIdle
    /\ NoReturns
    /\ LoaderIdle
    /\ PluginIdle
    /\ \/ storage = NoData
       \/ \E n \in StoredLengths : storage = saveToStorage(StoredLog(n))
    /\ feedbackLog = loadFromStorage(storage)
    /\ now = 0
    /\ called = "none"
    /\ summary = NoSummary

NextStorage ==
    \/ \E payload \in FeedbackPayloads : SubmitFeedback(payload)
    \/ Tick

SpecStorage == InitStorage /\ [][NextStorage]_vars

\* UI specification: the user edits the text blocks and toggles asset types
InitUI ==
    /\ TextIdle
    /\ TreeIdle
    /\ FeedbackIdle
    /\ NoReturns
    /\ LoaderIdle
    /\ PluginIdle

besidesUI ==
    <<textVars, treeVars, feedbackVars, returnVars, loaderVars,
      message, received, posted, page, fontsLoaded, handlerVars>>

AddTextBlock ==
    /\ Len(textBlocks) < MaxBlocks
    /\ textBlocks' = addTextBlock(textBlocks)
    /\ UNCHANGED <<besidesUI, selectedAssetTypes, loading, sent, delivered>>

\* the type or the text of a block that is shown was changed
UpdateTextBlock(id, updates) ==
    /\ \E i \in 1..Len(textBlocks) : textBlocks[i].id = id
    /\ textBlocks' = updateTextBlock(textBlocks, id, updates)
    /\ UNCHANGED <<besidesUI, selectedAssetTypes, loading, sent, delivered>>

\* the remove button of a block, which is shown when there are several
RemoveTextBlock(id) ==
    /\ Len(textBlocks) > 1
    /\ \E i \in 1..Len(textBlocks) : textBlocks[i].id = id
    /\ textBlocks' = removeTextBlock(textBlocks, id)
    /\ UNCHANGED <<besidesUI, selectedAssetTypes, loading, sent, delivered>>

ToggleAssetType(assetId) ==
    /\ selectedAssetTypes' = toggleAssetType(selectedAssetTypes, assetId)
    /\ UNCHANGED <<besidesUI, textBlocks, loading, sent, delivered>>

\* a click on Generate, which is disabled while loading or without asset
\* type; with blank texts only handleGenerate alerts and returns
HandleGenerate(theme) ==
    /\ Len(sent) < MaxMessages
    /\ ~loading
    /\ Len(selectedAssetTypes) # 0
    /\ ~everyBlockBlank(textBlocks)
    /\ loading' = TRUE
    /\ sent' = Append(sent, generateMessage(textBlocks, selectedAssetTypes, theme))
    /\ UNCHANGED <<besidesUI, textBlocks, selectedAssetTypes, delivered>>

NextUI ==
    \/ AddTextBlock
    \/ \E id \in BlockIds, updates \in BlockUpdates : UpdateTextBlock(id, updates)
    \/ \E id \in BlockIds : RemoveTextBlock(id)
    \/ \E assetId \in OfferedTypes : ToggleAssetType(assetId)

SpecUI == InitUI /\ [][NextUI]_vars

\* Batch specification: the UI and the plugin exchange messages.  The plugin
\* takes up the next message of the UI when no handler is suspended.
InitBatch ==
    /\ TextIdle
    /\ TreeIdle
    /\ FeedbackIdle
    /\ NoReturns
    /\ LoaderIdle
    /\ PluginIdle

\* figma.ui.onmessage for a generate-asset message of the UI
ReceiveGenerateAsset(fontsAvailable) ==
    /\ pending = NoPending
    /\ received < Len(sent)
    /\ sent[received + 1].type = "generate-asset"
    /\ GenerateAsset(sent[received + 1].payload, fontsAvailable)

\* figma.ui.onmessage for a batch-generate message of the UI, up to the
\* first await of handleBatchGenerate
ReceiveBatchGenerate ==
    /\ pending = NoPending
    /\ received < Len(sent)
    /\ sent[received + 1].type = "batch-generate"
    /\ message' = sent[received + 1]
    /\ received' = received + 1
    /\ pending' = [ pc |-> "batch", payload |-> sent[received + 1].payload,
                    next |-> 1, results |-> <<>> ]
    /\ UNCHANGED <<textVars, treeVars, feedbackVars, returnVars, loaderVars,
                   posted, page, fontsLoaded, savedConfig, trace, uiVars>>

\* one turn of the loop of handleBatchGenerate: handleGenerateAsset for the
\* next asset type; after the last one batch-complete is posted
BatchStep(fontsAvailable) ==
    /\ pending.pc = "batch"
    /\ LET assetType == pending.payload.assetTypes[pending.next]
           request == [ assetType |-> assetType, content |-> pending.payload.content,
                        theme |-> pending.payload.theme ]
           last == pending.next = Len(pending.payload.assetTypes)
           complete(ui, batchResults) ==
               IF last
               THEN Append(ui, [ type |-> "batch-complete",
                                 payload |-> [ results |-> batchResults ] ])
               ELSE ui
           continue(batchResults) ==
               IF last THEN NoPending
               ELSE [pending EXCEPT !.next = @ + 1, !.results = batchResults]
       IN  /\ inputs' = request.content
           /\ results' = analyze(request.content)
           /\ analyzed' = TRUE
           /\ fontsLoaded' = (fontsLoaded \/ (hasDimensions(assetType) /\ fontsAvailable))
           /\ \E outcome \in {handleGenerateAsset(request, brandConfig, fontsAvailable)} :
                  /\ trace' = callsOf(request, outcome)
                  /\ IF outcome.threw
                     THEN \E batchResults \in
                              {Append(pending.results,
                                      [ assetType |-> assetType, success |-> FALSE,
                                        error |-> outcome.message ])} :
                              /\ posted' = complete(posted, batchResults)
                              /\ pending' = continue(batchResults)
                              /\ UNCHANGED <<tree, width, height, before, op, opCount,
                                             themeName, auditResult, page>>
                     ELSE \E batchResults \in
                              {Append(pending.results,
                                      [ assetType |-> assetType, success |-> TRUE ])} :
                              /\ tree' = outcome.node
                              /\ width' = outcome.dimensions.width
                              /\ height' = outcome.dimensions.height
                              /\ before' = tree
                              /\ op' = "generate"
                              /\ opCount' = opCount + 1
                              /\ themeName' = request.theme
                              /\ auditResult' = outcome.auditResult
                              /\ page' = page + 1
                              /\ pending' = continue(batchResults)
                              /\ posted' =
                                     complete(
                                         Append(posted,
                                                [ type |-> "asset-generated",
                                                  payload |->
                                                      [ name |-> outcome.node[Root].name,
                                                        dimensions |-> outcome.dimensions,
                                                        auditResult |-> outcome.auditResult ] ]),
                                         batchResults)
    /\ UNCHANGED <<detected, brandConfig, feedbackVars, returnVars, loaderVars,
                   message, received, savedConfig, uiVars>>

\* the UI handles the next message of the plugin
HandleMessage ==
    /\ delivered < Len(posted)
    /\ loading' = handleMessage(posted[delivered + 1], loading)
    /\ delivered' = delivered + 1
    /\ UNCHANGED <<besidesUI, textBlocks, selectedAssetTypes, sent>>

NextBatch ==
    \/ \E id \in {"1"}, updates \in {[ text |-> T_big ]} : UpdateTextBlock(id, updates)
    \/ \E assetId \in OfferedTypes : ToggleAssetType(assetId)
    \/ \E theme \in SelectedThemes : HandleGenerate(theme)
    \/ \E fontsAvailable \in BOOLEAN : ReceiveGenerateAsset(fontsAvailable)
    \/ ReceiveBatchGenerate
    \/ \E fontsAvailable \in BOOLEAN : BatchStep(fontsAvailable)
    \/ HandleMessage

SpecBatch == InitBatch /\ [][NextBatch]_vars

\* Async specification: a generate-asset handler is suspended at the awaits
\* of AssetEngine.generate while load-brand-config messages are handled.
\* One generation is in flight at a time.  The awaits of the text nodes lie
\* between the two awaits of the model and read nothing of the engine.
InitAsync ==
    /\ TextIdle
    /\ TreeIdle
    /\ FeedbackIdle
    /\ NoReturns
    /\ LoaderIdle
    /\ PluginIdle

\* figma.ui.onmessage for generate-asset, up to await this.loadFonts()
StartGenerateAsset(payload) ==
    /\ received < MaxMessages
    /\ pending = NoPending
    /\ message' = [ type |-> "generate-asset", payload |-> payload ]
    /\ received' = received + 1
    /\ inputs' = payload.content
    /\ results' = analyze(payload.content)
    /\ analyzed' = TRUE
    /\ IF ~hasDimensions(payload.assetType)
       THEN /\ posted' = catchError(posted, "Unknown asset type: " \o payload.assetType)
            /\ trace' = << "analyze" >>
            /\ UNCHANGED pending
       ELSE /\ pending' = [ pc |-> "loadFonts", payload |-> payload,
                            content |-> analyze(payload.content),
                            dimensions |-> ASSET_DIMENSIONS[payload.assetType] ]
            /\ trace' = << "analyze", "generate" >>
            /\ UNCHANGED posted
    /\ UNCHANGED <<detected, treeVars, feedbackVars, returnVars, loaderVars,
                   page, fontsLoaded, savedConfig, uiVars>>

\* loadFonts has returned (a font that cannot be loaded is logged only):
\* generate builds the frame up to the first text node
ResumeAfterLoadFonts(fontsAvailable) ==
    /\ pending.pc = "loadFonts"
    /\ fontsLoaded' = (fontsLoaded \/ fontsAvailable)
    /\ \E early \in {generateEarly(pending.payload.assetType, pending.content,
                                   pending.dimensions, pending.payload.theme,
                                   brandConfig)} :
           pending' = [ pc |-> "loadFont", payload |-> pending.payload,
                        dimensions |-> pending.dimensions, early |-> early ]
    /\ UNCHANGED <<textVars, treeVars, feedbackVars, returnVars, loaderVars,
                   message, received, posted, page, savedConfig, trace, uiVars>>

\* the font of the logo placeholder was awaited: generate returns and
\* handleGenerateAsset runs to its end, or the rejection is caught by
\* figma.ui.onmessage
ResumeAfterLoadFont(fontsAvailable) ==
    /\ pending.pc = "loadFont"
    /\ pending' = NoPending
    /\ IF ~fontsAvailable
       THEN /\ posted' = catchError(posted, HostError)
            /\ UNCHANGED <<tree, width, height, before, op, opCount, themeName,
                           auditResult, page, trace>>
       ELSE \E outcome \in
                {finishGenerateAsset(asset, pending.payload, pending.dimensions,
                                     brandConfig) :
                     asset \in {generateLate(pending.early, brandConfig)}} :
                /\ tree' = outcome.node
                /\ width' = outcome.dimensions.width
                /\ height' = outcome.dimensions.height
                /\ before' = tree
                /\ op' = "generate"
                /\ opCount' = opCount + 1
                /\ themeName' = pending.payload.theme
                /\ auditResult' = outcome.auditResult
                /\ page' = page + 1
                /\ trace' = trace \o pipeline(pending.payload.theme)
                /\ posted' =
                       Append(posted,
                              [ type |-> "asset-generated",
                                payload |-> [ name |-> outcome.node[Root].name,
                                              dimensions |-> outcome.dimensions,
                                              auditResult |-> outcome.auditResult ] ])
    /\ UNCHANGED <<textVars, brandConfig, feedbackVars, returnVars, loaderVars,
                   message, received, fontsLoaded, savedConfig, uiVars>>

NextAsync ==
    \/ \E payload \in AsyncPayloads : StartGenerateAsset(payload)
    \/ \E fontsAvailable \in BOOLEAN : ResumeAfterLoadFonts(fontsAvailable)
    \/ \E fontsAvailable \in BOOLEAN : ResumeAfterLoadFont(fontsAvailable)
    \/ \E parsed \in LoadableConfigs : LoadBrandConfig(parsed)

SpecAsync == InitAsync /\ [][NextAsync]_vars

(***************************************************************************)
(* Properties of TextAnalyzer                                              *)
(***************************************************************************)
\* the object of the result array that was pushed for input i
ResultOf(i) == results[CHOOSE k \in 1..Len(results) : results[k].src = i]

HeadlineCount == Cardinality({k \in 1..Len(results) : results[k].type = "headline"})

Untyped(i) == inputs[i].type = NoType

\* C1: for a non-empty batch, the result of analyze holds at most one
\* headline, unless every input of the batch carried an explicit role.
C1_AtMostOneHeadline ==
    (analyzed /\ Len(inputs) > 0 /\ \E i \in 1..Len(inputs) : Untyped(i))
        => HeadlineCount <= 1

\* a mixed batch with two typed headlines and an untyped input has been
\* analyzed
C1_Witness ==
    /\ analyzed
    /\ \E i \in 1..Len(inputs) : Untyped(i)
    /\ Cardinality({i \in 1..Len(inputs) : inputs[i].type = "headline"}) >= 2
    /\ HeadlineCount = 1

\* C2: every input with an explicit role keeps that role, with confidence
\* 1.0, in the result of analyze.
C2_ExplicitRoleKept ==
    analyzed =>
        \A i \in 1..Len(inputs) :
            ~Untyped(i) =>
                /\ ResultOf(i).type = inputs[i].type
                /\ ResultOf(i).confidence = 10000

RolesBySource == [i \in 1..Len(inputs) |-> ResultOf(i).type]

\* C3 as stated: the four inputs of the launch example are classified
\* headline, body, cta, tag.
C3_LaunchRolesAsStated ==
    (analyzed /\ inputs = LaunchBatch)
        => RolesBySource = <<"headline", "body", "cta", "tag">>

\* C3 (amended): the four inputs of the launch example are classified
\* headline, cta, cta, tag: the second input has the action word "join" and
\* five words.
C3_LaunchRoles ==
    (analyzed /\ inputs = LaunchBatch)
        => RolesBySource = <<"headline", "cta", "cta", "tag">>

C3_Witness == analyzed /\ inputs = LaunchBatch /\ Len(results) = 4

ShortUnpunctuatedPair ==
    /\ Len(inputs) = 2
    /\ \A i \in 1..2 :
        /\ Untyped(i)
        /\ countWords(inputs[i].text) <= 10
        /\ ~hasPunctuation(inputs[i].text)

HeadlineThenSubhead ==
    /\ ResultOf(1).type = "headline"
    /\ ResultOf(1).confidence = 8000
    /\ ResultOf(2).type = "subhead"
    /\ ResultOf(2).confidence = 6400

\* C4 as stated: two untyped inputs of at most 10 words without terminal
\* punctuation come out as headline (0.8) and subhead (0.64).
C4_PairAsStated == (analyzed /\ ShortUnpunctuatedPair) => HeadlineThenSubhead

\* C4 (amended): two untyped inputs of at most 10 words without terminal
\* punctuation, neither of which is a tag or a call to action (an action
\* word and at most 5 words), come out as headline (0.8) and subhead (0.64).
C4_Pair ==
    ( /\ analyzed
      /\ ShortUnpunctuatedPair
      /\ \A i \in 1..2 :
            /\ ~isTag(inputs[i].text)
            /\ ~(hasActionWord(inputs[i].text) /\ countWords(inputs[i].text) <= 5) )
        => HeadlineThenSubhead

C4_Witness ==
    /\ analyzed
    /\ inputs = << [text |-> T_launch, type |-> NoType],
                   [text |-> T_big, type |-> NoType] >>
    /\ HeadlineThenSubhead

\* the per-item classification of input i: the object pushed for it
Classified(i) == pushed[inputs[i]]

\* the inputs that qualify for promotion to headline
Candidates ==
    {i \in 1..Len(inputs) :
        /\ Classified(i).wordCount <= 15
        /\ Classified(i).type \notin {"cta", "tag"}}

NoHeadlineClassified ==
    /\ Len(inputs) > 0
    /\ \A i \in 1..Len(inputs) : Classified(i).type # "headline"

Unchanged(i) ==
    /\ ResultOf(i).type = Classified(i).type
    /\ ResultOf(i).confidence = Classified(i).confidence

\* C13: when the per-item classification of a non-empty batch yields no
\* headline, analyze promotes exactly the first input with at most 15 words
\* and a role other than cta and tag to headline, with 0.7 times its
\* confidence; when there is no such input the result has no headline and
\* every role and confidence is as classified.
C13_PromotionOfFirstCandidate ==
    (analyzed /\ NoHeadlineClassified) =>
        IF Candidates = {}
        THEN /\ HeadlineCount = 0
             /\ \A i \in 1..Len(inputs) : Unchanged(i)
        ELSE LET c == CHOOSE i \in Candidates : \A k \in Candidates : i <= k
             IN  /\ ResultOf(c).type = "headline"
                 /\ 10 * ResultOf(c).confidence = 7 * Classified(c).confidence
                 /\ \A i \in 1..Len(inputs) : i # c => Unchanged(i)

\* a batch whose first input has 17 words and whose second input, a
\* subhead of 15 words, was promoted
C13_Witness ==
    /\ analyzed
    /\ NoHeadlineClassified
    /\ Len(inputs) = 3
    /\ Classified(1).wordCount = 17
    /\ Classified(2).wordCount = 15
    /\ Classified(2).type = "subhead"
    /\ ResultOf(2).type = "headline"
    /\ ResultOf(2).confidence = 5250
    /\ Candidates = {2, 3}

\* how often the text occurs in a sequence of objects with a text field
Occurrences(seq, text) == Cardinality({k \in 1..Len(seq) : seq[k].text = text})

\* the rank of a role: tag < headline < subhead < body < cta
Priority ==
    [ tag |-> 1, headline |-> 2, subhead |-> 3, body |-> 4, cta |-> 5 ]

\* C14: the result of analyze is as long as the input, holds each input
\* text as often as the input does, and is ordered by the role priority
\* tag < headline < subhead < body < cta, items of equal role in input
\* order; an empty batch gives an empty result.
C14_LengthTextsAndOrder ==
    analyzed =>
        /\ Len(results) = Len(inputs)
        /\ \A i \in 1..Len(inputs) :
               Occurrences(results, inputs[i].text)
                   = Occurrences(inputs, inputs[i].text)
        /\ \A k, m \in 1..Len(results) :
               k < m =>
                   \/ Priority[results[k].type] < Priority[results[m].type]
                   \/ /\ results[k].type = results[m].type
                      /\ results[k].src < results[m].src
        /\ (inputs = <<>> => results = <<>>)

\* a batch of three with the same text twice came out in another order
\* than it went in, two items of equal role in input order
C14_Witness ==
    /\ analyzed
    /\ Len(results) = 3
    /\ inputs[1].text = inputs[3].text
    /\ results[1].src = 2
    /\ results[2].type = results[3].type
    /\ results[2].src = 1

\* the text detectType was called with, trimmed
Trimmed == trim(inputs[1].text)

\* no letter of the text is a lower-case letter
EntirelyUpperCase(s) == \A i \in 1..Len(s) : s[i] \notin LowerLetters

\* C12 as stated: an input without a type is classified tag exactly when its
\* trimmed text matches a short-label pattern and has at most 3 words, or
\* has at most 15 characters and is entirely upper-case whatever its word
\* count.
C12_TagRuleAsStated ==
    detected # NoDetection =>
        ( detected.type = "tag" <=>
            \/ TAG_PATTERNS(Trimmed) /\ countWords(Trimmed) <= 3
            \/ Len(Trimmed) <= 15 /\ EntirelyUpperCase(Trimmed) )

\* C12 (amended): an input without a type is classified tag exactly when
\* its trimmed text has at most 3 words and either matches a short-label
\* pattern or has at most 15 characters and no lower-case letter; an
\* upper-case text of four words is not a tag.
C12_TagRule ==
    detected # NoDetection =>
        ( detected.type = "tag" <=>
            /\ countWords(Trimmed) <= 3
            /\ \/ TAG_PATTERNS(Trimmed)
               \/ Len(Trimmed) <= 15 /\ EntirelyUpperCase(Trimmed) )

\* a four-word upper-case text of 7 characters has been classified, and not
\* as tag
C12_Witness ==
    /\ detected # NoDetection
    /\ inputs[1].text = <<"A", " ", "A", " ", "A", " ", "A">>
    /\ detected.type = "headline"

(***************************************************************************)
(* Properties of LayerManager                                              *)
(***************************************************************************)
NamesOf(t) == [n \in 1..Len(t) |-> t[n].name]

RootChildren(t) == t[Root].children

\* the names the reordering step of applyNaming sees: those after renaming
NameNow(c) == tree[c].name

SharedName(name) ==
    \E i, j \in 1..Len(RootChildren(tree)) :
        /\ i < j
        /\ NameNow(RootChildren(tree)[i]) = name
        /\ NameNow(RootChildren(tree)[j]) = name

\* C5: applyNaming is idempotent: a second application leaves every node
\* name and the child order of the root as the first application left them.
C5_ApplyNamingIdempotent ==
    (op = "applyNaming" /\ opCount >= 2)
        => /\ NamesOf(tree) = NamesOf(before)
           /\ RootChildren(tree) = RootChildren(before)

\* applyNaming has run twice on a root with two children named content and
\* further children
C5_Witness ==
    /\ op = "applyNaming"
    /\ opCount = 2
    /\ SharedName(LAYER_NAMES.content)
    /\ Len(RootChildren(tree)) = 4

\* the first child (in the order before the call) of each canonical name of
\* the layer order that is present
LeadingChildren ==
    LET pre == RootChildren(before)
        firstOf(name) ==
            {pre[i] : i \in {k \in 1..Len(pre) :
                /\ NameNow(pre[k]) = name
                /\ \A m \in 1..(k - 1) : NameNow(pre[m]) # name}}
    IN  [ background |-> firstOf(LAYER_NAMES.background),
          decorative |-> firstOf(LAYER_NAMES.decorative),
          branding |-> firstOf(LAYER_NAMES.branding),
          content |-> firstOf(LAYER_NAMES.content) ]

Leaders ==
    LeadingChildren.background \cup LeadingChildren.decorative
        \cup LeadingChildren.branding \cup LeadingChildren.content

Position(seq, x) == CHOOSE i \in 1..Len(seq) : seq[i] = x

\* C6: after the reordering of applyNaming the root's children are a
\* permutation of its children before; they start with the first child named
\* background, decorative, branding, content (those present, in that order);
\* every other child keeps its relative order.
C6_OrganizeIsStablePartition ==
    op = "applyNaming" =>
        LET pre == RootChildren(before)
            post == RootChildren(tree)
        IN  /\ Len(post) = Len(pre)
            /\ \A c \in 1..Len(tree) :
                   Cardinality({i \in 1..Len(post) : post[i] = c})
                       = Cardinality({i \in 1..Len(pre) : pre[i] = c})
            /\ \A i \in 1..Len(post) :
                   (i <= Cardinality(Leaders)) <=> (post[i] \in Leaders)
            /\ \A x \in LeadingChildren.background :
                   \A y \in Leaders \ LeadingChildren.background :
                       Position(post, x) < Position(post, y)
            /\ \A x \in LeadingChildren.decorative :
                   \A y \in LeadingChildren.branding \cup LeadingChildren.content :
                       Position(post, x) < Position(post, y)
            /\ \A x \in LeadingChildren.branding :
                   \A y \in LeadingChildren.content :
                       Position(post, x) < Position(post, y)
            /\ SelectSeq(post, LAMBDA c : c \notin Leaders)
                   = SelectSeq(pre, LAMBDA c : c \notin Leaders)

\* applyNaming has reordered a root two of whose children are named content
C6_Witness ==
    /\ op = "applyNaming"
    /\ opCount = 1
    /\ SharedName(LAYER_NAMES.content)
    /\ RootChildren(tree) # RootChildren(before)

\* C15: applyNaming gives every descendant of the root that is not a text
\* node and whose lower-cased name contains "logo" the name logo, whatever
\* its node type, FRAME and GROUP included.
C15_LogoNamedLogo ==
    op = "applyNaming" =>
        \A n \in 2..Len(tree) :
            ( /\ before[n].type # "TEXT"
              /\ includes(toLowerCase(before[n].name), Keyword.logo) )
                => tree[n].name = LAYER_NAMES.logo

DirectChildNamed(name) ==
    \E i \in 1..Len(RootChildren(tree)) : NameNow(RootChildren(tree)[i]) = name

NamedBelowOnly(name) ==
    /\ ~DirectChildNamed(name)
    /\ \E n \in 2..Len(tree) : NameNow(n) = name

\* C16: validate on a root that is no FRAME returns valid = false with
\* exactly one error and no warnings or suggestions; on a FRAME root it
\* reports an error iff no direct child is named content, a warning iff none
\* is named branding, a suggestion iff none is named decorative, and valid
\* iff there is no error; names further down do not count.
C16_ValidateReport ==
    op = "validate" =>
        IF tree[Root].type # "FRAME"
        THEN /\ ~validationResult.valid
             /\ Len(validationResult.errors) = 1
             /\ validationResult.warnings = <<>>
             /\ validationResult.suggestions = <<>>
        ELSE /\ Len(validationResult.errors) > 0
                    <=> ~DirectChildNamed(LAYER_NAMES.content)
             /\ Len(validationResult.warnings) > 0
                    <=> ~DirectChildNamed(LAYER_NAMES.branding)
             /\ Len(validationResult.suggestions) > 0
                    <=> ~DirectChildNamed(LAYER_NAMES.decorative)
             /\ validationResult.valid <=> validationResult.errors = <<>>

\* validate has reported the missing content layer of a FRAME root that has
\* a branding child and holds content and decorative further down only
C16_Witness ==
    /\ op = "validate"
    /\ tree[Root].type = "FRAME"
    /\ NamedBelowOnly(LAYER_NAMES.content)
    /\ NamedBelowOnly(LAYER_NAMES.decorative)
    /\ ~validationResult.valid
    /\ validationResult.warnings = <<>>
    /\ Len(validationResult.suggestions) = 1

(***************************************************************************)
(* Properties of AuditEngine                                               *)
(***************************************************************************)
CheckNames ==
    << "Color Compliance", "Typography", "Logo Placement", "Layer Structure",
       "Safe Zones", "Contrast Ratio", "Export Quality" >>

PassedCount ==
    Cardinality({i \in 1..Len(auditResult.checks) : auditResult.checks[i].passed})

\* C7: audit returns exactly seven checks in the fixed order, and its score
\* is 100 x passedCount / 7 rounded to the nearest integer, within 0..100.
C7_SevenChecksAndScore ==
    op = "audit" =>
        /\ Len(auditResult.checks) = 7
        /\ [i \in 1..7 |-> auditResult.checks[i].name] = CheckNames
        /\ 2 * (7 * auditResult.score - 100 * PassedCount) <= 7
        /\ 2 * (100 * PassedCount - 7 * auditResult.score) <= 7
        /\ auditResult.score \in 0..100

\* an audit in which four of the seven checks failed (score 43)
C7_Witness == op = "audit" /\ PassedCount = 3 /\ auditResult.score = 43

FailedErrorCheck ==
    \E i \in 1..Len(auditResult.checks) :
        /\ auditResult.checks[i].severity = "error"
        /\ ~auditResult.checks[i].passed

\* C8: audit returns passed = false exactly when a check of severity error
\* has failed; a failed check of severity warning does not make it false.
C8_PassedIffNoFailedError ==
    op = "audit" => (auditResult.passed <=> ~FailedErrorCheck)

\* an audit whose logo check (a warning) failed and whose result is passed
C8_Witness ==
    /\ op = "audit"
    /\ ~auditResult.checks[3].passed
    /\ auditResult.checks[3].severity = "warning"
    /\ auditResult.passed

\* C9: a frame narrower than 600 or lower than 200 fails the export-quality
\* check with severity error and audit returns passed = false; a frame of
\* exactly 600x200 does not fail the export-quality check.
C9_ExportQualityMinimum ==
    op = "audit" =>
        /\ (width < 600 \/ height < 200) =>
               /\ ~auditResult.checks[7].passed
               /\ auditResult.checks[7].severity = "error"
               /\ ~auditResult.passed
        /\ (width = 600 /\ height = 200) => auditResult.checks[7].passed

\* the audit of a 500x150 frame in which only the export check failed
C9_Witness ==
    /\ op = "audit"
    /\ width = 500
    /\ height = 150
    /\ PassedCount = 6
    /\ ~auditResult.passed

(***************************************************************************)
(* Properties of ThemeEngine                                               *)
(***************************************************************************)
KnownThemes == {"dark", "light", "bold", "minimal", "gradient"}

PaintOf(t) == [n \in 1..Len(t) |-> <<t[n].fills, t[n].visible>>]

\* The documents of the theme specification list their nodes in pre-order:
\* the first node of a name in pre-order is the one of least position.
FirstNamed(among, name) ==
    LET hits == {n \in among : before[n].name = name}
    IN  IF hits = {} THEN NoNode ELSE CHOOSE n \in hits : \A k \in hits : n <= k

\* a node, its children and their children
Subtree(n) ==
    LET kids(m) == {before[m].children[i] : i \in 1..Len(before[m].children)}
    IN  {n} \cup kids(n) \cup UNION {kids(k) : k \in kids(n)}

\* the text nodes applyTextColors is to paint
TextNotCta ==
    {n \in 1..Len(before) :
        before[n].type = "TEXT" /\ before[n].name # LAYER_NAMES.cta}

\* the node applyAccentColors is to paint, if any
AccentNode ==
    LET c == FirstNamed(1..Len(before), LAYER_NAMES.cta)
    IN  IF c # NoNode /\ before[c].type = "TEXT" THEN {c} ELSE {}

\* the node applyGlowEffect shows or hides, if any
GlowNode ==
    LET d == FirstNamed(1..Len(before), LAYER_NAMES.decorative)
    IN  IF d = NoNode \/ ~hasChildren(before[d]) THEN {}
        ELSE {FirstNamed(Subtree(d), LAYER_NAMES.glow)} \ {NoNode}

ThemeColor(field) == getColor(brandConfig, THEMES[themeName][field])

\* C17: apply with a known theme gives every text node not named cta the
\* theme's text color as solid fill, gives the first node named cta in
\* pre-order the theme's accent color iff that node is a text node, and
\* modifies no node other than the root, these text nodes and the glow node.
C17_TextAndAccentColors ==
    (op = "apply" /\ themeName \in KnownThemes) =>
        /\ \A n \in TextNotCta : tree[n].fills = solidFill(ThemeColor("text"))
        /\ \A n \in AccentNode : tree[n].fills = solidFill(ThemeColor("accent"))
        /\ \A n \in 1..Len(before) :
               /\ n \notin ({Root} \cup TextNotCta \cup AccentNode)
                      => tree[n].fills = before[n].fills
               /\ n \notin GlowNode => tree[n].visible = before[n].visible
               /\ tree[n].name = before[n].name
               /\ tree[n].type = before[n].type
               /\ tree[n].children = before[n].children
        /\ Len(tree) = Len(before)

\* a known theme was applied to a document whose first node named cta is a
\* rectangle, followed by a text node named cta and another text node
C17_Witness ==
    /\ op = "apply"
    /\ themeName = "bold"
    /\ Len(tree) = 4
    /\ before[2].type = "RECTANGLE" /\ before[2].name = LAYER_NAMES.cta
    /\ before[3].type = "TEXT" /\ before[3].name = LAYER_NAMES.cta
    /\ tree[3].fills = OriginalFill
    /\ 4 \in TextNotCta
    /\ tree[4].fills = solidFill(ThemeColor("text"))

Black == [ r |-> 0, g |-> 0, b |-> 0 ]

\* a 6-digit hexadecimal string with optional leading #
Hex6(s) ==
    LET body == IF Len(s) > 0 /\ s[1] = "#" THEN Tail(s) ELSE s
    IN  /\ Len(body) = 6
        /\ \A i \in 1..6 :
               body[i] \in Digits \cup {"a","b","c","d","e","f"}
                                 \cup {"A","B","C","D","E","F"}

\* the brand palette, if the engine has one
BrandPalette ==
    IF ~brandConfig.null /\ brandConfig.hasColors
    THEN brandConfig.colors ELSE << >>

\* the string the resolution of a key starts from: the palette's value if
\* `held`, else the built-in default, else "#000000"
Source(key, held) ==
    IF held THEN BrandPalette[key]
    ELSE IF key \in DOMAIN DEFAULT_COLORS THEN DEFAULT_COLORS[key]
    ELSE <<"#","0","0","0","0","0","0">>

ResolvesFrom(src) ==
    /\ resolved.color = hexToRgb(src)
    /\ ~Hex6(src) => resolved.color = Black

\* C18 as stated: getColor returns hexToRgb of the palette's value for the
\* key when the palette has the key, else of the built-in default, else of
\* "#000000"; a value that is no 6-digit hex string resolves to black.
C18_ResolutionAsStated ==
    op = "getColor" =>
        ResolvesFrom(Source(resolved.key, resolved.key \in DOMAIN BrandPalette))

\* C18 (amended): getColor returns hexToRgb of the palette's value for the
\* key when the palette has a non-empty value for it, else of the built-in
\* default, else of "#000000"; a value that is no 6-digit hex string
\* resolves to black.
C18_Resolution ==
    op = "getColor" =>
        ResolvesFrom(Source(resolved.key,
                            /\ resolved.key \in DOMAIN BrandPalette
                            /\ BrandPalette[resolved.key] # <<>>))

\* getColor has fallen back to the built-in default for a key the partial
\* palette lacks, the palette's own primary being a 3-digit value
C18_Witness ==
    /\ op = "getColor"
    /\ resolved.key = "accent"
    /\ DOMAIN BrandPalette = {"primary", "custom"}
    /\ BrandPalette["primary"] = V_short
    /\ resolved.color = [ r |-> 16, g |-> 185, b |-> 129 ]

\* C10: apply with a theme id that is none of dark, light, bold, minimal,
\* gradient leaves the fills and the visible flag of every node unchanged.
C10_UnknownThemeIsNoOp ==
    (op = "apply" /\ themeName \notin KnownThemes)
        => PaintOf(tree) = PaintOf(before)

(***************************************************************************)
(* Properties of FeedbackSystem                                            *)
(***************************************************************************)
EmptySummary ==
    /\ summary.averageRating = 0
    /\ summary.commonIssues = <<>>
    /\ summary.approvedFirstTry = 0
    /\ summary.neededRevision = 0
    /\ summary.rejected = 0

\* C11 as stated: getSummary returns average 0, no common issues and outcome
\* counts 0 whenever no logged entry has a timestamp within
\* [now - days, now].
C11_EmptyWindowAsStated ==
    ( /\ called = "getSummary"
      /\ \A i \in 1..Len(feedbackLog) :
            ~ /\ feedbackLog[i].timestamp >= summary.periodStart
              /\ feedbackLog[i].timestamp <= summary.periodEnd )
        => EmptySummary

\* C11 (amended): getSummary returns average 0, no common issues and outcome
\* counts 0 whenever no logged entry has a timestamp of now - days or later;
\* the window has no upper end.
C11_EmptyWindow ==
    ( /\ called = "getSummary"
      /\ \A i \in 1..Len(feedbackLog) :
            feedbackLog[i].timestamp < summary.periodStart )
        => EmptySummary

\* getSummary has returned for a log all of whose entries are older than
\* the window
C11_Witness ==
    /\ called = "getSummary"
    /\ Len(feedbackLog) >= 2
    /\ \A i \in 1..Len(feedbackLog) :
          feedbackLog[i].timestamp < summary.periodStart
    /\ EmptySummary

(***************************************************************************)
(* Properties of BrandConfigLoader                                         *)
(***************************************************************************)
ConfigValidated == configValidation # NoConfigValidation

\* brand.name is missing: no brand section, no name in it, or an empty one
NameMissing == ~config.hasBrand \/ config.brand.name \in {Undefined, <<>>}

\* the values of the inputs that are a # with 3 or 6 hex digits or an
\* rgb()/rgba() functional string
WellFormedValues ==
    { V_red, V_mixed, V_short, V_rgb, V_rgba, V_rgbSpaced }
        \cup {DEFAULT_COLORS[k] : k \in DOMAIN DEFAULT_COLORS}

RequiredColorKeys ==
    { "primary", "secondary", "accent", "background_light", "background_dark",
      "text_light", "text_dark" }

MissingOrMalformed(k) ==
    k \notin DOMAIN config.colors \/ config.colors[k] \notin WellFormedValues

UnknownTypeRequest ==
    /\ received' = received + 1
    /\ message'.type = "generate-asset"
    /\ message'.payload.assetType
           \notin (DOMAIN ASSET_DIMENSIONS) \cup ObjectPrototypeMembers

NothingGenerated ==
    /\ tree' = tree
    /\ page' = page
    /\ auditResult' = auditResult

\* C20 as stated: a generate-asset request that names an asset type absent
\* from the dimension registry is a silent no-op: nothing is generated and
\* no message, so no error message, is posted to the UI.
C20_UnknownTypeIsSilent ==
    [][UnknownTypeRequest => NothingGenerated /\ posted' = posted]_vars

\* C20 as amended: such a request is a reported failure: nothing is
\* generated, and exactly one message is posted to the UI, the error
\* message with the text "Unknown asset type: " followed by the type.
C20_UnknownTypeIsReported ==
    [][UnknownTypeRequest =>
          /\ NothingGenerated
          /\ posted' =
                 Append(posted,
                        [ type |-> "error",
                          payload |-> [ message |->
                              "Unknown asset type: " \o message'.payload.assetType ] ])]_vars

\* the first message asked for an asset of type neon-sign with the launch
\* texts: the error is the only message posted and the page holds no frame
C20_Witness ==
    /\ received = 1
    /\ message.type = "generate-asset"
    /\ message.payload.assetType = "neon-sign"
    /\ message.payload.content = LaunchBatch
    /\ posted = << [ type |-> "error",
                     payload |-> [ message |-> "Unknown asset type: neon-sign" ] ] >>
    /\ page = 0
    /\ tree = <<RootFrame>>

(***************************************************************************)
(* Further properties of ThemeEngine                                       *)
(***************************************************************************)
\* C30: after apply with a known theme every text node of the tree has a
\* solid fill equal to the theme's text color or to the theme's accent
\* color; no text node keeps its fill of before, whatever nodes are named
\* cta.
C30_EveryTextNodeThemed ==
    (op = "apply" /\ themeName \in KnownThemes) =>
        \A n \in 1..Len(tree) :
            tree[n].type = "TEXT" =>
                tree[n].fills \in { solidFill(ThemeColor("text")),
                                    solidFill(ThemeColor("accent")) }

(***************************************************************************)
(* Further properties of the message handler                               *)
(***************************************************************************)
\* C29: when a generate-asset message was handled without an error, the
\* frame that was audited still holds a node named logo and the audit result
\* that was posted carries no "Logo layer not found" warning.
C29_LogoStillNamedLogo ==
    op = "generate" =>
        /\ \E n \in 2..Len(tree) : tree[n].name = LAYER_NAMES.logo
        /\ \A i \in 1..Len(auditResult.warnings) :
               auditResult.warnings[i] # "Logo layer not found"

\* C27: an asset generated for a type of ASSET_DIMENSIONS passes the
\* export-quality check of its audit, so the audit result that is posted
\* never fails because of the size of the asset.
C27_BuiltInSizePasses ==
    op = "generate" =>
        \A i \in 1..Len(auditResult.checks) :
            auditResult.checks[i].name = "Export Quality" =>
                /\ auditResult.checks[i].passed
                /\ (~auditResult.passed =>
                        \E k \in 1..Len(auditResult.checks) :
                            /\ k # i
                            /\ auditResult.checks[k].severity = "error"
                            /\ ~auditResult.checks[k].passed)

(***************************************************************************)
(* Properties of a loaded configuration                                    *)
(***************************************************************************)
DecimalValue ==
    "0" :> 0 @@ "1" :> 1 @@ "2" :> 2 @@ "3" :> 3 @@ "4" :> 4 @@
    "5" :> 5 @@ "6" :> 6 @@ "7" :> 7 @@ "8" :> 8 @@ "9" :> 9

RECURSIVE Numbers(_, _, _)
\* the numbers written in s from index i on, one for each run of digits;
\* open tells that the last number is still being read
Numbers(s, i, open) ==
    IF i > Len(s) THEN <<>>
    ELSE IF s[i] \notin Digits THEN Numbers(s, i + 1, FALSE)
    ELSE LET rest == Numbers(s, i + 1, TRUE)
             run == skip(s, i, Digits) - i
             power[k \in 0..run] == IF k = 0 THEN 1 ELSE 10 * power[k - 1]
         IN  IF open
             THEN rest
             ELSE << LET value[k \in 0..run] ==
                             IF k = 0 THEN 0
                             ELSE 10 * value[k - 1] + DecimalValue[s[i + k - 1]]
                     IN  value[run] >> \o rest

\* the color a string denotes that isValidColor accepts: #rrggbb, #rgb
\* (each digit doubled) or rgb(r, g, b) / rgba(r, g, b, a)
Denoted(value) ==
    IF MatchesHexColor(value) /\ Len(value) = 7
    THEN [ r |-> parseHexPair(value, 2), g |-> parseHexPair(value, 4),
           b |-> parseHexPair(value, 6) ]
    ELSE IF MatchesHexColor(value)
    THEN [ r |-> 17 * HexDigitValue[LowerChar(value[2])],
           g |-> 17 * HexDigitValue[LowerChar(value[3])],
           b |-> 17 * HexDigitValue[LowerChar(value[4])] ]
    ELSE LET numbers == Numbers(value, 1, FALSE)
         IN  [ r |-> numbers[1], g |-> numbers[2], b |-> numbers[3] ]

\* C28: when a configuration was loaded without validation errors,
\* ThemeEngine resolves each required color key to the color its string
\* denotes, whether written with six digits, with three digits or as
\* rgb()/rgba(); none is replaced by black.
C28_AcceptedColorResolved ==
    [][ ( /\ op = "none"
          /\ op' = "getColor"
          /\ ~brandConfig.null
          /\ \E i \in 1..Len(colorFields) : colorFields[i] = resolved'.key )
            => resolved'.color = Denoted(brandConfig.colors[resolved'.key]) ]_vars

(***************************************************************************)
(* Properties of the stored feedback log                                   *)
(***************************************************************************)
\* the last min(n, RetentionCap) entries of a log of n entries
LastEntries(log) ==
    SubSeq(log, Len(log) - Min(Len(log), RetentionCap) + 1, Len(log))

C23_DistinctIds ==
    \A i, j \in 1..Len(textBlocks) :
        i # j => textBlocks[i].id # textBlocks[j].id

\* C24: after any sequence of addTextBlock and removeTextBlock from the
\* initial block, the list of text blocks is not empty.
C24_NeverEmpty == Len(textBlocks) >= 1

\* the number of messages of a type among msgs
CountOf(msgs, type) == Cardinality({i \in 1..Len(msgs) : msgs[i].type = type})

\* a batch was started whose batch-complete the UI has not handled yet
BatchOutstanding ==
    CountOf(sent, "batch-generate")
        > CountOf(SubSeq(posted, 1, delivered), "batch-complete")

\* C25: from the click that starts a batch until the UI handles the
\* batch-complete message of that batch, the loading state is true, so that
\* Generate stays disabled and no second batch can be started.
C25_LoadingUntilBatchComplete == BatchOutstanding => loading

(***************************************************************************)
(* Properties of suspended handlers                                        *)
(***************************************************************************)
\* the step in which a suspended generate-asset handler posts its asset
AssetFinished == pending.pc = "loadFont" /\ page' = page + 1

\* C26: whatever messages are handled while a generate-asset handler is
\* suspended, the asset it leaves and its audit result are those of one
\* brand configuration: the frame, its groups, its theme and its audit all
\* read the same configuration.
C26_SingleConfiguration ==
    [][ AssetFinished =>
          \E cfg \in UsableConfigs :
              \E single \in {handleGenerateAsset(pending.payload, cfg, TRUE)} :
                  /\ tree' = single.node
                  /\ auditResult' = single.auditResult ]_vars

\* the handler of a generate-asset message ends in this step: at once when
\* it throws before its first await, or when it is resumed for the last time
HandlerEnds ==
    \/ /\ received' = received + 1
       /\ message'.type = "generate-asset"
       /\ pending' = NoPending
    \/ pending.pc = "loadFont" /\ pending' = NoPending

\* the handler of a generate-asset message is suspended after this step
HandlerSuspends == pending' # NoPending /\ pending' # pending

\* the request the ending handler was called with
EndingPayload == IF pending = NoPending THEN message'.payload ELSE pending.payload

\* C21: the handler of a generate-asset message with a known asset type
\* calls analyze, generate, applyNaming, apply (only when a theme is given)
\* and audit in this order, each on the tree the call before left, and then
\* posts one asset-generated message with that audit result; a handler that
\* throws posts one error message and no asset-generated message.  Nothing
\* is posted while the handler is suspended.
C21_PipelineInOrder ==
    [][ /\ HandlerSuspends => posted' = posted
        /\ (HandlerEnds /\ page' = page + 1) =>
              \E asset \in {generateLate(pending.early, brandConfig)} :
              \E named \in {applyNaming(asset)} :
                  /\ hasDimensions(EndingPayload.assetType)
                  /\ results = analyze(EndingPayload.content)
                  /\ \E cfg \in UsableConfigs :
                         pending.early.contentGroup =
                             createContentGroup(results, cfg, EndingPayload.theme)
                  /\ trace' =
                         << "analyze", "generate", "applyNaming" >>
                             \o (IF EndingPayload.theme # NoTheme THEN << "apply" >>
                                 ELSE <<>>)
                             \o << "audit", "postMessage" >>
                  /\ tree' = IF EndingPayload.theme # NoTheme
                             THEN apply(named, brandConfig, EndingPayload.theme)
                             ELSE named
                  /\ auditResult' = audit(tree', width', height', brandConfig)
                  /\ Len(posted') = Len(posted) + 1
                  /\ SubSeq(posted', 1, Len(posted)) = posted
                  /\ posted'[Len(posted')].type = "asset-generated"
                  /\ posted'[Len(posted')].payload.auditResult = auditResult'
        /\ (HandlerEnds /\ page' = page) =>
              /\ posted' = Append(posted, posted'[Len(posted')])
              /\ posted'[Len(posted')].type = "error"
              /\ UNCHANGED <<tree, auditResult>> ]_vars

\* a request for a twitter post with the launch texts and the gradient
\* theme was handled: the six calls were made and the one message posted
\* carries the audit result of the themed frame
C21_Witness ==
    /\ received = 1
    /\ pending = NoPending
    /\ message.type = "generate-asset"
    /\ message.payload.assetType = "twitter-post"
    /\ message.payload.content = LaunchBatch
    /\ message.payload.theme = "gradient"
    /\ trace = << "analyze", "generate", "applyNaming", "apply", "audit", "postMessage" >>
    /\ Len(posted) = 1
    /\ posted[1].type = "asset-generated"
    /\ posted[1].payload.auditResult = auditResult
    /\ auditResult = audit(tree, 1200, 675, brandConfig)
    /\ op = "generate"

====
